---- MODULE Spec2Model ----
(***************************************************************************)
(* Control plane of the multi-region GPU cluster (mrgc): the state store   *)
(* adapter and instance registry (global-state), the health monitor,       *)
(* failover handler and regional router (regional-router) and the          *)
(* autoscaler.  The replicated key-value store is modelled as tables of    *)
(* rows; put_item replaces a row, update_item creates the row when it is   *)
(* missing and sets only the attributes it names.                          *)
(***************************************************************************)
EXTENDS Integers, Sequences, FiniteSets, TLC

VARIABLES
    now,              \* time.time(), in seconds
    instances,        \* gpu-instances table: instance_id -> row
    routing,          \* routing-state table: instance_id -> row
    hm_stale,         \* HealthMonitor: ids returned by detect_stale_instances, not yet marked
    failure_counts,   \* HealthMonitor.failure_counts: instance_id -> consecutive failures
    failover_state,   \* FailoverHandler.failover_state
    failover_events,  \* FailoverHandler.failover_events
    fo_metrics,       \* metrics recorded by the FailoverHandler, counted by name
    scaling_decisions,\* rows written by record_scaling_decision
    region_health,    \* the RegionHealth read by the last failover tick
    router_stats,     \* RegionalRouter request counters
    rt_cache,         \* RegionalRouter: instances demoted by update_health
    rt_last,          \* the last request the router handled
    as_row,           \* autoscaling-state table: the row of the region
    as_pc,            \* AutoScaler process -> where it is in run()
    as_local,         \* AutoScaler process -> the locals of run()
    as_actions,       \* the last two scaling actions performed, oldest first
    hm_pc,            \* monitor loop -> sleep, probing or stale
    hm_todo,          \* monitor loop -> ids whose probe has not completed
    hm_results,       \* monitor loop -> the healths its cycle has collected
    hm_running,       \* executions of check_all_instances in progress
    hm_wake,          \* monitor loop -> the time at which its sleep ends
    hm_cycle_start,   \* monitor loop -> the time at which its cycle started
    hm_increments,    \* instance_id -> time of the last failure counter increment
    hb_pending,       \* store writer -> the write it has prepared, not yet applied
    rm_last,          \* the last update_routing_metrics call: arguments and result
    probe_last,       \* the last probe: the instance, the outcome, the health returned
    probe_run,        \* instance_id -> probes without HTTP 200 in a row, up to the last
    rq_pc,            \* router request thread -> where it is in process_request
    rq_tmp,           \* router request thread -> the counter value it has loaded
    rq_status,        \* router request thread -> the status code of its request
    rq_done,          \* requests process_request has returned from
    ga_dial,          \* Global Accelerator: region -> traffic dial percentage
    ga_last,          \* the last GlobalAcceleratorManager call and its result
    as_metric,        \* AutoScaler process -> outcome of its last CloudWatch read
    last_op           \* the last store-facing call: who made it, on which id

foVars == <<failure_counts, failover_state, failover_events, fo_metrics,
            scaling_decisions, region_health>>

rtVars == <<router_stats, rt_cache, rt_last>>

asVars == <<as_row, as_pc, as_local, as_actions>>

hmVars == <<hm_pc, hm_todo, hm_results, hm_running, hm_wake, hm_cycle_start,
            hm_increments>>

hbVars == <<hb_pending>>

rmVars == <<rm_last>>

pbVars == <<probe_last, probe_run>>

rqVars == <<rq_pc, rq_tmp, rq_status, rq_done>>

gaVars == <<ga_dial, ga_last>>

amVars == <<as_metric>>

vars == <<now, instances, routing, hm_stale, last_op, foVars, rtVars, asVars, hmVars,
          hbVars, rmVars, pbVars, rqVars, gaVars, amVars>>

----------------------------------------------------------------------------
(* Bounds of the model *)

\* number of clock steps the model follows
MaxTicks == 2

\* seconds per clock step in the registry specification
ClockStep == 60

InstanceIds == {"i-1", "i-2"}
Regions == {"us-east-1", "us-east-2"}
ModelPools == {"model-a"}
QueueDepths == {0, 3}

\* the region the HealthMonitor of the model runs in
LocalRegion == "us-east-1"

----------------------------------------------------------------------------
(* Rows.  A missing attribute is "none" (strings) or -1 (numbers). *)

NoRow ==
    [present |-> FALSE, region |-> "none", model_pool |-> "none",
     ip_address |-> "none", state |-> "none", queue_depth |-> -1,
     last_heartbeat |-> -1, launch_time |-> -1]

NoRouting ==
    [present |-> FALSE, region |-> "none", routing_score |-> -1,
     queue_depth |-> -1, avg_latency_ms |-> -1, health_status |-> "none",
     last_updated |-> -1]

NoOp ==
    [actor |-> "none", op |-> "none", id |-> "none", existed |-> FALSE,
     prior |-> "none"]

\* int(x) of a non-negative number given as numerator/denominator
IntDiv(n, d) == n \div d

----------------------------------------------------------------------------
(* StateManager: gpu-instances table *)

\* register_instance: put_item of a complete row in state launching
register_instance(tbl, id, region, pool) ==
    [tbl EXCEPT ![id] =
        [present |-> TRUE, region |-> region, model_pool |-> pool,
         ip_address |-> "ip", state |-> "launching", queue_depth |-> 0,
         last_heartbeat |-> now, launch_time |-> now]]

\* update_instance_state: update_item SET state, last_heartbeat [, queue_depth]
\* (q = -1 stands for queue_depth=None)
update_instance_state(tbl, id, st, q) ==
    [tbl EXCEPT ![id] =
        [@ EXCEPT !.present = TRUE, !.state = st, !.last_heartbeat = now,
                  !.queue_depth = IF q = -1 THEN @ ELSE q]]

\* a heartbeat routed through update_instance_state, which also writes state
heartbeat_via_state_update(tbl, id, q) ==
    update_instance_state(tbl, id, "available", q)

\* heartbeat: update_item SET last_heartbeat, queue_depth
heartbeat(tbl, id, q) ==
    [tbl EXCEPT ![id] =
        [@ EXCEPT !.present = TRUE, !.last_heartbeat = now, !.queue_depth = q]]

\* get_instances_by_region: query on region-index with an optional state filter
\* (st = "any" stands for state=None); rows are identified by their ids
get_instances_by_region(tbl, region, st) ==
    {i \in DOMAIN tbl :
        /\ tbl[i].present
        /\ tbl[i].region = region
        /\ (st = "any" \/ tbl[i].state = st)}

----------------------------------------------------------------------------
(* StateManager: routing-state table *)

\* update_routing_state: put_item; score and latency are stored as int(x).
\* The score is passed as score_num / score_den.
update_routing_state(tbl, id, region, score_num, score_den, q, latency, health) ==
    [tbl EXCEPT ![id] =
        [present |-> TRUE, region |-> region,
         routing_score |-> IntDiv(score_num, score_den),
         queue_depth |-> q, avg_latency_ms |-> latency,
         health_status |-> health, last_updated |-> now]]

----------------------------------------------------------------------------
(* Initial state: empty tables *)

NoRegionHealth ==
    [status |-> "none", healthy_instances |-> 0, total_instances |-> 0,
     degraded_reason |-> "none"]

NoMetrics ==
    [failover_event |-> 0, failover_recovery |-> 0, failover_complete |-> 0]

NoRequest ==
    [model_pool |-> "none", read |-> {}, selected |-> "none", status |-> 0,
     forwards |-> 0, upstream |-> "none", upstream_body |-> "none",
     body |-> "none", request |-> "none"]

\* FailoverHandler.__init__, HealthMonitor.__init__, RegionalRouter.__init__
\* autoscaler processes that may run a tick for the same region at once
AsProcs == {1, 2}

\* no row in the autoscaling-state table
NoScalingState ==
    [present |-> FALSE, desired_capacity |-> -1, last_scale_action |-> "none",
     last_scale_time |-> -1, high_rps_since |-> -1, low_rps_since |-> -1]

NoLocals == [rps |-> 0, count |-> 0, state |-> NoScalingState]

\* the loops that run probe cycles on the HealthMonitor of the region:
\* run_health_check_loop and run_failover_monitor_loop
HmLoops == {"health_check", "failover_monitor"}

\* store writers whose calls may be in flight at the same time
HbWriters == {1, 2}

\* no write prepared
NoWrite == [op |-> "none", id |-> "none", t |-> -1, q |-> -1, state |-> "none"]

\* no update_routing_metrics call made
NoMetricsCall ==
    [instance_id |-> "none", queue_depth |-> -1, avg_latency_ms |-> -1,
     health_status |-> "none", result |-> "none"]

\* no probe made
NoProbe ==
    [instance_id |-> "none", outcome |-> "none", health |-> "none", before |-> -1]

\* request threads of the router's server
RqThreads == {1, 2}

\* regions with an endpoint group (region_endpoint_group_arns)
GaRegions == {"us-east-1", "us-east-2", "us-west-2"}

\* no GlobalAcceleratorManager call made
NoGaCall ==
    [op |-> "none", region |-> "none", targets |-> {}, result |-> "none",
     before |-> << >>]

InitControllers ==
    /\ rq_pc = [t \in RqThreads |-> "idle"]
    /\ rq_tmp = [t \in RqThreads |-> 0]
    /\ rq_status = [t \in RqThreads |-> 0]
    /\ rq_done = 0
    /\ ga_dial = [r \in GaRegions |-> 100]
    /\ ga_last = NoGaCall
    /\ as_metric = [p \in AsProcs |-> "none"]
    /\ rm_last = NoMetricsCall
    /\ probe_last = NoProbe
    /\ probe_run = << >>
    /\ hm_pc = [l \in HmLoops |-> "sleep"]
    /\ hm_todo = [l \in HmLoops |-> {}]
    /\ hm_results = [l \in HmLoops |-> << >>]
    /\ hm_running = 0
    /\ hm_wake = [l \in HmLoops |-> 0]
    /\ hm_cycle_start = [l \in HmLoops |-> 0]
    /\ hm_increments = << >>
    /\ hb_pending = [w \in HbWriters |-> NoWrite]
    /\ as_row = NoScalingState
    /\ as_pc = [p \in AsProcs |-> "idle"]
    /\ as_local = [p \in AsProcs |-> NoLocals]
    /\ as_actions = << >>
    /\ failure_counts = << >>
    /\ failover_state = "normal"
    /\ failover_events = << >>
    /\ fo_metrics = NoMetrics
    /\ scaling_decisions = << >>
    /\ region_health = NoRegionHealth
    /\ router_stats = [total_requests |-> 0, successful_requests |-> 0,
                       failed_requests |-> 0]
    /\ rt_cache = {}
    /\ rt_last = NoRequest

Init ==
    /\ now = 0
    /\ instances = [i \in InstanceIds |-> NoRow]
    /\ routing = [i \in InstanceIds |-> NoRouting]
    /\ hm_stale = {}
    /\ last_op = NoOp
    /\ InitControllers

\* the record of a call: the caller, the operation, the id it names, and
\* whether the row existed and in which state when the call was made
Op(actor, op, id) ==
    [actor |-> actor, op |-> op, id |-> id, existed |-> instances[id].present,
     prior |-> instances[id].state]

\* time passes
Clock ==
    /\ now < MaxTicks * ClockStep
    /\ now' = now + ClockStep
    /\ UNCHANGED <<rqVars, gaVars, amVars, rmVars, pbVars, hmVars, hbVars, instances, routing, hm_stale, last_op, foVars, rtVars, asVars>>

----------------------------------------------------------------------------
(* InstanceRegistry *)

\* register_new_instance: register_instance, then the bootstrap routing row
RegisterNewInstance(id, region, pool) ==
    /\ instances' = register_instance(instances, id, region, pool)
    /\ routing' = update_routing_state(routing, id, region, 10, 1, 0, 0, "healthy")
    /\ last_op' = Op("worker", "register_instance", id)
    /\ UNCHANGED <<rqVars, gaVars, amVars, rmVars, pbVars, hmVars, hbVars, now, hm_stale, foVars, rtVars, asVars>>

MarkInstanceAvailable(id) ==
    /\ instances' = update_instance_state(instances, id, "available", 0)
    /\ last_op' = Op("operator", "mark_instance_available", id)
    /\ UNCHANGED <<rqVars, gaVars, amVars, rmVars, pbVars, hmVars, hbVars, now, routing, hm_stale, foVars, rtVars, asVars>>

BeginDraining(id) ==
    /\ instances' = update_instance_state(instances, id, "draining", -1)
    /\ last_op' = Op("operator", "begin_draining", id)
    /\ UNCHANGED <<rqVars, gaVars, amVars, rmVars, pbVars, hmVars, hbVars, now, routing, hm_stale, foVars, rtVars, asVars>>

QuarantineInstance(id) ==
    /\ instances' = update_instance_state(instances, id, "quarantined", -1)
    /\ last_op' = Op("cleanup", "quarantine_instance", id)
    /\ UNCHANGED <<rqVars, gaVars, amVars, rmVars, pbVars, hmVars, hbVars, now, routing, hm_stale, foVars, rtVars, asVars>>

SendHeartbeat(id, q) ==
    /\ instances' = heartbeat(instances, id, q)
    /\ last_op' = Op("worker", "heartbeat", id)
    /\ UNCHANGED <<rqVars, gaVars, amVars, rmVars, pbVars, hmVars, hbVars, now, routing, hm_stale, foVars, rtVars, asVars>>

----------------------------------------------------------------------------
(* HealthMonitor: stale heartbeat handling of run_health_check_loop *)

\* heartbeat age after which detect_stale_instances reports an instance
stale_timeout_seconds == 90

\* detect_stale_instances: available or draining rows of the region whose
\* last_heartbeat is older than the cutoff
detect_stale_instances(tbl) ==
    {i \in get_instances_by_region(tbl, LocalRegion, "any") :
        /\ tbl[i].state \in {"available", "draining"}
        /\ tbl[i].last_heartbeat < now - stale_timeout_seconds}

\* marking an unhealthy instance quarantined instead of draining
mark_instance_unhealthy_quarantines(tbl, id) ==
    update_instance_state(tbl, id, "quarantined", -1)

\* the state mark_instance_unhealthy writes after zeroing the routing row
mark_instance_unhealthy(tbl, id) ==
    update_instance_state(tbl, id, "draining", -1)

DetectStaleInstances ==
    /\ hm_stale = {}
    /\ hm_stale' = detect_stale_instances(instances)
    /\ last_op' = [NoOp EXCEPT !.actor = "health_monitor",
                               !.op = "detect_stale_instances"]
    /\ UNCHANGED <<rqVars, gaVars, amVars, rmVars, pbVars, hmVars, hbVars, now, instances, routing, foVars, rtVars, asVars>>

MarkInstanceUnhealthy(id) ==
    /\ id \in hm_stale
    /\ routing' = update_routing_state(routing, id, LocalRegion, 0, 1, 99, 99999,
                                       "unhealthy")
    /\ instances' = mark_instance_unhealthy(instances, id)
    /\ hm_stale' = hm_stale \ {id}
    /\ last_op' = Op("health_monitor", "mark_instance_unhealthy", id)
    /\ UNCHANGED <<rqVars, gaVars, amVars, rmVars, pbVars, hmVars, hbVars, now, foVars, rtVars, asVars>>

Next ==
    \/ Clock
    \/ \E id \in InstanceIds, r \in Regions, p \in ModelPools :
            RegisterNewInstance(id, r, p)
    \/ \E id \in InstanceIds : MarkInstanceAvailable(id)
    \/ \E id \in InstanceIds : BeginDraining(id)
    \/ \E id \in InstanceIds : QuarantineInstance(id)
    \/ \E id \in InstanceIds, q \in QueueDepths : SendHeartbeat(id, q)
    \/ DetectStaleInstances
    \/ \E id \in InstanceIds : MarkInstanceUnhealthy(id)

Spec == Init /\ [][Next]_vars

----------------------------------------------------------------------------
(* Properties of the state store adapter and the instance registry *)

\* the step is a call of op on id (the clock does not move during a call)
Called(op, id) ==
    /\ last_op'.op = op
    /\ last_op'.id = id
    /\ now' = now

\* C7 (as claimed): a register_instance on an id that already has a row
\* leaves that row as it was: state, queue_depth, last_heartbeat and
\* launch_time are not reset.
C7_RepeatedRegisterKeepsRow ==
    [][\A id \in InstanceIds :
          (Called("register_instance", id) /\ instances[id].present)
              => instances'[id] = instances[id]]_vars

\* C8: a heartbeat on an existing worker changes only last_heartbeat and
\* queue_depth of that worker's row; its state and every other attribute,
\* every other row and the routing table are as before the call, whatever
\* the worker's state and whatever calls came before.
C8_HeartbeatFrame ==
    [][\A id \in InstanceIds :
          (Called("heartbeat", id) /\ instances[id].present)
              => /\ instances'[id].state = instances[id].state
                 /\ instances'[id] =
                        [instances[id] EXCEPT
                            !.last_heartbeat = now,
                            !.queue_depth = instances'[id].queue_depth]
                 /\ \A j \in InstanceIds \ {id} : instances'[j] = instances[j]
                 /\ routing' = routing]_vars

\* C8 witness: a heartbeat has acted on an existing worker that a lifecycle
\* transition had moved to quarantined, and changed its queue_depth
C8_Witness ==
    /\ last_op.op = "heartbeat"
    /\ last_op.existed
    /\ last_op.prior = "quarantined"
    /\ instances[last_op.id].state = "quarantined"
    /\ instances[last_op.id].queue_depth = 3
    /\ instances[last_op.id].launch_time >= 0
    /\ instances[last_op.id].last_heartbeat > instances[last_op.id].launch_time

\* C9 (as claimed): heartbeat and update_instance_state on an id without a
\* row create no row, so every row of the instances table carries region,
\* model_pool and ip_address.
C9_NoPartialRow ==
    \A id \in InstanceIds :
        instances[id].present =>
            /\ instances[id].region # "none"
            /\ instances[id].model_pool # "none"
            /\ instances[id].ip_address # "none"

\* C10: a quarantined worker becomes available only by the operator's
\* mark_instance_available, never by a Health Monitor action, and no Health
\* Monitor action moves a worker into quarantined.
C10_Quarantine ==
    [][\A id \in InstanceIds :
          /\ (instances[id].state = "quarantined"
                 /\ instances'[id].state = "available")
                => (last_op'.actor = "operator"
                      /\ last_op'.op = "mark_instance_available")
          /\ (last_op'.actor = "health_monitor" /\ now' = now)
                => /\ instances'[id].state = "quarantined"
                        => instances[id].state = "quarantined"
                   /\ instances'[id].state = "available"
                        => instances[id].state = "available"]_vars

\* C10 witness: mark_instance_unhealthy has acted on a worker that was
\* quarantined after detect_stale_instances had read it
C10_Witness ==
    /\ last_op.actor = "health_monitor"
    /\ last_op.op = "mark_instance_unhealthy"
    /\ last_op.prior = "quarantined"
    /\ instances[last_op.id].state # "available"

----------------------------------------------------------------------------
(* HealthMonitor: probes *)

\* consecutive failures before a probe failure counts as unhealthy
failure_threshold == 3

\* self.failure_counts.get(instance_id, 0)
FailureCount(id) ==
    IF id \in DOMAIN failure_counts THEN failure_counts[id] ELSE 0

\* The counter after a probe.  An HTTP 200 resets it before the body is
\* parsed; a 200 whose body is not JSON then raises and counts one failure.
probe_failure_count(id, o) ==
    CASE o.kind = "ok" -> 0
      [] o.kind = "bad_json" -> 1
      [] OTHER -> FailureCount(id) + 1

\* check_instance_health: the InstanceHealth of one probe outcome
check_instance_health(id, o) ==
    LET failures == probe_failure_count(id, o) IN
    [instance_id |-> id,
     status |->
        IF o.kind = "ok"
        THEN (IF o.queue_depth > 8 \/ o.rtt > 5000 THEN "degraded" ELSE "healthy")
        ELSE (IF failures >= failure_threshold THEN "unhealthy" ELSE "degraded"),
     consecutive_failures |-> failures,
     response_time_ms |->
        IF o.kind \in {"ok", "http_error", "timeout"} THEN o.rtt ELSE 0]

Max(a, b) == IF a >= b THEN a ELSE b

\* _update_routing_health writing the rows of healthy instances only
update_routing_health_healthy_only(tbl, h) ==
    IF h.status = "healthy"
    THEN update_routing_state(tbl, h.instance_id, LocalRegion,
                              Max(0, 1000 - h.response_time_ms), 10, 0,
                              h.response_time_ms, h.status)
    ELSE tbl

\* _update_routing_health: the routing row written for one InstanceHealth
update_routing_health(tbl, h) ==
    update_routing_state(tbl, h.instance_id, LocalRegion,
        CASE h.status = "healthy" -> Max(0, 1000 - h.response_time_ms)
          [] h.status = "degraded" -> 500
          [] OTHER -> 0,
        10, 0, h.response_time_ms, h.status)

\* the number of instance healths with the given status
CountStatus(healths, st) ==
    Cardinality({i \in DOMAIN healths : healths[i].status = st})

\* calculate_region_health taking exactly 80% healthy as degraded
calculate_region_health_above_80(healths) ==
    LET total == Cardinality(DOMAIN healths)
        healthy == CountStatus(healths, "healthy")
    IN  IF total = 0
        THEN [status |-> "unhealthy", healthy_instances |-> 0,
              total_instances |-> 0, degraded_reason |-> "No instances available"]
        ELSE [status |->
                 IF healthy * 100 > 80 * total THEN "healthy"
                 ELSE IF healthy * 100 >= 50 * total THEN "degraded"
                 ELSE "unhealthy",
              healthy_instances |-> healthy,
              total_instances |-> total,
              degraded_reason |->
                 IF healthy * 100 > 80 * total THEN "none"
                 ELSE IF healthy * 100 >= 50 * total THEN "instances unhealthy"
                 ELSE "Only some instances healthy"]

\* calculate_region_health
calculate_region_health(healths) ==
    LET total == Cardinality(DOMAIN healths)
        healthy == CountStatus(healths, "healthy")
    IN  IF total = 0
        THEN [status |-> "unhealthy", healthy_instances |-> 0,
              total_instances |-> 0, degraded_reason |-> "No instances available"]
        ELSE [status |->
                 IF healthy * 100 >= 80 * total THEN "healthy"
                 ELSE IF healthy * 100 >= 50 * total THEN "degraded"
                 ELSE "unhealthy",
              healthy_instances |-> healthy,
              total_instances |-> total,
              degraded_reason |->
                 IF healthy * 100 >= 80 * total THEN "none"
                 ELSE IF healthy * 100 >= 50 * total THEN "instances unhealthy"
                 ELSE "Only some instances healthy"]

----------------------------------------------------------------------------
(* FailoverHandler *)

\* thresholds on the healthy ratio, in percent
degraded_threshold == 50
unhealthy_threshold == 30
recovery_threshold == 80

all_regions == <<"us-east-1", "us-east-2", "us-west-2">>

REGION_LATENCY(source, target) ==
    CASE source = "us-east-1" /\ target = "us-east-2" -> 15
      [] source = "us-east-1" /\ target = "us-west-2" -> 70
      [] source = "us-east-2" /\ target = "us-east-1" -> 15
      [] source = "us-east-2" /\ target = "us-west-2" -> 55
      [] source = "us-west-2" /\ target = "us-east-1" -> 70
      [] source = "us-west-2" /\ target = "us-east-2" -> 55
      [] OTHER -> 100

\* evaluate_region_health without the band between the thresholds
evaluate_region_health_no_band(rh, current) ==
    IF rh.total_instances = 0 THEN "failover_active"
    ELSE IF rh.healthy_instances * 100 < unhealthy_threshold * rh.total_instances
         THEN "failover_active"
    ELSE IF rh.healthy_instances * 100 < degraded_threshold * rh.total_instances
         THEN "degraded"
    ELSE "normal"

\* evaluate_region_health: the recommended state
evaluate_region_health(rh, current) ==
    IF rh.total_instances = 0 THEN "failover_active"
    ELSE IF rh.healthy_instances * 100 < unhealthy_threshold * rh.total_instances
         THEN "failover_active"
    ELSE IF rh.healthy_instances * 100 < degraded_threshold * rh.total_instances
         THEN "degraded"
    ELSE IF rh.healthy_instances * 100 >= recovery_threshold * rh.total_instances
         THEN "normal"
    ELSE current

\* list.sort(key=(priority, latency_ms)): a stable insertion sort
RouteBefore(a, b) ==
    \/ a.priority < b.priority
    \/ (a.priority = b.priority /\ a.latency_ms < b.latency_ms)

RECURSIVE InsertRoute(_, _)
InsertRoute(r, s) ==
    IF s = << >> THEN <<r>>
    ELSE IF RouteBefore(Head(s), r)
         THEN <<Head(s)>> \o InsertRoute(r, Tail(s))
         ELSE <<r>> \o s

RECURSIVE SortRoutes(_)
SortRoutes(s) ==
    IF s = << >> THEN << >> ELSE InsertRoute(Head(s), SortRoutes(Tail(s)))

\* get_failover_targets: the sibling regions, nearest first
get_failover_targets(source_region) ==
    LET route(target) ==
            LET latency == REGION_LATENCY(source_region, target) IN
            [target_region |-> target, latency_ms |-> latency,
             priority |-> IF latency < 30 THEN 1 ELSE IF latency < 60 THEN 2 ELSE 3]
        siblings == SelectSeq(all_regions, LAMBDA r : r # source_region)
    IN  SortRoutes([k \in 1..Len(siblings) |-> route(siblings[k])])

\* initiate_failover: the target regions that hold an available instance
healthy_targets(tbl, region) ==
    LET routes == get_failover_targets(region)
        live == SelectSeq(routes,
                    LAMBDA r : get_instances_by_region(tbl, r.target_region,
                                                       "available") # {})
    IN  [k \in 1..Len(live) |-> live[k].target_region]

\* initiate_failover: the state it leaves the handler in
initiate_failover(current, targets) ==
    IF targets = << >> THEN current ELSE "failover_active"

\* check_recovery reporting the region recovered outright
check_recovery_to_normal(current, rh) ==
    IF current = "failover_active"
       /\ rh.total_instances > 0
       /\ rh.healthy_instances * 100 >= recovery_threshold * rh.total_instances
    THEN "normal"
    ELSE current

\* check_recovery: the state it leaves the handler in
check_recovery(current, rh) ==
    IF current = "failover_active"
       /\ rh.total_instances > 0
       /\ rh.healthy_instances * 100 >= recovery_threshold * rh.total_instances
    THEN "recovering"
    ELSE current

\* complete_recovery: the state it leaves the handler in
complete_recovery(current) ==
    IF current = "recovering" THEN "normal" ELSE current

\* the state transitions of one pass of run_failover_monitor_loop
failover_transition(current, rh, targets) ==
    LET recommended == evaluate_region_health(rh, current) IN
    CASE recommended = "failover_active" ->
            IF current # "failover_active"
            THEN initiate_failover(current, targets) ELSE current
      [] recommended = "normal" ->
            IF current = "recovering" THEN complete_recovery(current)
            ELSE IF current = "failover_active" THEN check_recovery(current, rh)
            ELSE current
      [] recommended = "degraded" ->
            IF current = "normal" THEN "degraded" ELSE current
      [] OTHER -> current

\* _trigger_failover_scaling: one scaling request per target region
trigger_failover_scaling(targets, additional) ==
    [k \in 1..Len(targets) |->
        [model_pool |-> "all", region |-> targets[k],
         desired_capacity |-> additional \div Len(targets),
         scaling_action |-> "scale-up"]]

\* get_routing_preference with the two failover targets exchanged
get_routing_preference_swapped(region, state) ==
    LET targets == get_failover_targets(region)
        others == {all_regions[k] : k \in DOMAIN all_regions} \ {region}
    IN  [r \in {all_regions[k] : k \in DOMAIN all_regions} |->
            CASE state = "normal" -> IF r = region THEN 100 ELSE 10
              [] state = "degraded" -> IF r = region THEN 70 ELSE 30
              [] state = "failover_active" ->
                    IF r = targets[1].target_region THEN 15
                    ELSE IF r = region THEN 5 ELSE 80
              [] state = "recovering" -> IF r = region THEN 50 ELSE 25
              [] OTHER -> IF r = region THEN 100 ELSE -1]

\* get_routing_preference: region -> weight, -1 for a region the dict lacks.
\* In FAILOVER_ACTIVE the dict literal is built key by key, a later key
\* replacing an earlier equal one.
get_routing_preference(region, state) ==
    LET targets == get_failover_targets(region)
        third == IF Len(targets) > 1 THEN targets[2].target_region ELSE region
    IN  [r \in {all_regions[k] : k \in DOMAIN all_regions} |->
            CASE state = "normal" -> IF r = region THEN 100 ELSE 10
              [] state = "degraded" -> IF r = region THEN 70 ELSE 30
              [] state = "failover_active" ->
                    IF r = third THEN 15
                    ELSE IF r = targets[1].target_region THEN 80
                    ELSE IF r = region THEN 5 ELSE -1
              [] state = "recovering" -> IF r = region THEN 50 ELSE 25
              [] OTHER -> IF r = region THEN 100 ELSE -1]

----------------------------------------------------------------------------
(* The failover monitor of one region over a small fleet *)

\* failed probes the model follows per instance
MaxFailures == 3

\* failovers the model follows
MaxEvents == 2

FoLocalIds == {"i-1", "i-2", "i-3"}
FoSiblings == [r \in {"us-east-2", "us-west-2"} |->
                  IF r = "us-east-2" THEN "i-4" ELSE "i-5"]
FoIds == FoLocalIds \cup {FoSiblings[r] : r \in DOMAIN FoSiblings}

FoRegionOf(id) ==
    IF id \in FoLocalIds THEN LocalRegion
    ELSE CHOOSE r \in DOMAIN FoSiblings : FoSiblings[r] = id

FoProbeOutcomes ==
    {[kind |-> "ok", queue_depth |-> 1, rtt |-> 20],
     [kind |-> "ok", queue_depth |-> 9, rtt |-> 20],
     [kind |-> "conn_error", queue_depth |-> 0, rtt |-> 0]}

\* a fleet: the instances of `fleet` registered and marked available
FleetInstances(ids, fleet, regionOf, t) ==
    [i \in ids |->
        IF i \in fleet
        THEN [present |-> TRUE, region |-> regionOf[i], model_pool |-> "model-a",
              ip_address |-> "ip", state |-> "available", queue_depth |-> 0,
              last_heartbeat |-> t, launch_time |-> t]
        ELSE NoRow]

\* the routing rows register_new_instance wrote for the fleet
FleetRouting(ids, fleet, regionOf, t) ==
    [i \in ids |->
        IF i \in fleet
        THEN [present |-> TRUE, region |-> regionOf[i], routing_score |-> 10,
              queue_depth |-> 0, avg_latency_ms |-> 0, health_status |-> "healthy",
              last_updated |-> t]
        ELSE NoRouting]

\* any fleet over the three regions, registered and marked available
InitFailover ==
    /\ now = 0
    /\ \E fleet \in SUBSET FoIds :
          /\ instances = FleetInstances(FoIds, fleet, [i \in FoIds |-> FoRegionOf(i)], 0)
          /\ routing = FleetRouting(FoIds, fleet, [i \in FoIds |-> FoRegionOf(i)], 0)
    /\ hm_stale = {}
    /\ last_op = NoOp
    /\ InitControllers

\* check_all_instances: the routing table after every health is written back
WriteRoutingHealth(tbl, healths) ==
    [i \in DOMAIN tbl |->
        IF i \in DOMAIN healths
        THEN update_routing_health(tbl, healths[i])[i]
        ELSE tbl[i]]

\* check_and_handle_failover on the healths of one probe cycle:
\* calculate_region_health, then the transitions and what they record
FailoverDecide(healths) ==
    LET rh == calculate_region_health(healths)
        targets == healthy_targets(instances, LocalRegion)
        next_state == failover_transition(failover_state, rh, targets)
        initiated == failover_state # "failover_active"
                        /\ next_state = "failover_active"
    IN  /\ initiated => Len(failover_events) < MaxEvents
        /\ region_health' = rh
        /\ failover_state' = next_state
        /\ failover_events' =
              IF initiated
              THEN Append(failover_events,
                          [from_region |-> LocalRegion, to_regions |-> targets,
                           reason |-> rh.degraded_reason,
                           affected_instances |-> rh.total_instances])
              ELSE failover_events
        /\ fo_metrics' =
              [fo_metrics EXCEPT
                 !.failover_event = IF initiated THEN @ + 1 ELSE @,
                 !.failover_recovery =
                    IF failover_state = "failover_active" /\ next_state = "recovering"
                    THEN @ + 1 ELSE @,
                 !.failover_complete =
                    IF failover_state = "recovering" /\ next_state = "normal"
                    THEN @ + 1 ELSE @]
        /\ scaling_decisions' =
              IF initiated
              THEN scaling_decisions \o trigger_failover_scaling(targets, rh.total_instances)
              ELSE scaling_decisions

\* One pass of run_failover_monitor_loop: check_all_instances (probes,
\* failure counters, routing rows), calculate_region_health, the transitions.
FailoverTick(outcomes) ==
    LET ids == DOMAIN outcomes
        healths == [i \in ids |-> check_instance_health(i, outcomes[i])]
    IN  /\ \A i \in ids : healths[i].consecutive_failures <= MaxFailures
        /\ failure_counts' =
              [i \in DOMAIN failure_counts \cup ids |->
                  IF i \in ids THEN healths[i].consecutive_failures
                  ELSE failure_counts[i]]
        /\ routing' = WriteRoutingHealth(routing, healths)
        /\ FailoverDecide(healths)
        /\ last_op' = [NoOp EXCEPT !.actor = "failover", !.op = "tick"]
        /\ UNCHANGED <<rqVars, gaVars, amVars, rmVars, pbVars, hmVars, hbVars, now, instances, hm_stale, rtVars, asVars>>

NextFailover ==
    \/ \E outcomes \in [get_instances_by_region(instances, LocalRegion, "available")
                            -> FoProbeOutcomes] : FailoverTick(outcomes)

SpecFailover == InitFailover /\ [][NextFailover]_vars

----------------------------------------------------------------------------
(* Properties of the failover state machine *)

\* the healthy ratio of a RegionHealth is at least pct percent
RatioAtLeast(rh, pct) ==
    /\ rh.total_instances > 0
    /\ rh.healthy_instances * 100 >= pct * rh.total_instances

\* C1: a tick that finds the handler in FAILOVER_ACTIVE and reads a healthy
\* ratio >= recovery_threshold leaves it in RECOVERING; no single tick takes
\* the handler from FAILOVER_ACTIVE to NORMAL.
C1_RecoveringBeforeNormal ==
    [][failover_state = "failover_active" =>
          /\ failover_state' # "normal"
          /\ (last_op'.op = "tick" /\ RatioAtLeast(region_health', recovery_threshold))
                => failover_state' = "recovering"]_vars

\* C1 witness: a tick has taken the handler from FAILOVER_ACTIVE to
\* RECOVERING on a fully healthy read
C1_Witness ==
    /\ failover_state = "recovering"
    /\ fo_metrics.failover_recovery = 1
    /\ Len(failover_events) = 1
    /\ RatioAtLeast(region_health, recovery_threshold)

----------------------------------------------------------------------------
(* HealthMonitor: the probe cycle on its own *)

\* check_all_instances: probe every available instance of the region, keep
\* the failure counters, write every health back to the routing table
CheckAllInstances(outcomes) ==
    LET healths == [i \in DOMAIN outcomes |->
                        check_instance_health(i, outcomes[i])]
    IN  /\ \A i \in DOMAIN outcomes : healths[i].consecutive_failures <= MaxFailures
        /\ failure_counts' =
              [i \in DOMAIN failure_counts \cup DOMAIN outcomes |->
                  IF i \in DOMAIN outcomes THEN healths[i].consecutive_failures
                  ELSE failure_counts[i]]
        /\ routing' = WriteRoutingHealth(routing, healths)
        /\ last_op' = [NoOp EXCEPT !.actor = "health_monitor",
                                   !.op = "check_all_instances"]
        /\ UNCHANGED <<rqVars, gaVars, amVars, rmVars, pbVars, hmVars, hbVars, now, instances, hm_stale, failover_state, failover_events,
                       fo_metrics, scaling_decisions, region_health, rtVars, asVars>>

----------------------------------------------------------------------------
(* RegionalRouter *)

\* requests the model follows
MaxRequests == 1

RtPools == {"model-a", "model-b"}

\* the health component of the routing score (instance_registry: health_score)
health_score(health_status) ==
    CASE health_status = "healthy" -> 100
      [] health_status = "degraded" -> 50
      [] OTHER -> 0

\* The row the router reads for an instance: the worker row joined with its
\* routing row.  A worker is ready when its state is available; update_health
\* overrides the health score in the router's own cache.
RouterRow(id) ==
    [instance_id |-> id,
     status |-> IF instances[id].state = "available" THEN "ready"
                ELSE instances[id].state,
     health_score |-> IF id \in rt_cache \/ ~routing[id].present THEN 0
                      ELSE health_score(routing[id].health_status),
     routing_score |-> IF routing[id].present THEN routing[id].routing_score ELSE 0]

\* registry.get_instances_by_region_and_model: the ids of the rows read
get_instances_by_region_and_model(region, model_pool) ==
    {i \in DOMAIN instances :
        /\ instances[i].present
        /\ instances[i].region = region
        /\ instances[i].model_pool = model_pool}

\* select_instance: the rows that pass the filter
healthy_instances(read) ==
    {i \in read : RouterRow(i).status = "ready" /\ RouterRow(i).health_score > 50}

\* min(...) in place of max(...): the first row with the lowest routing score
RECURSIVE first_min_by_score(_, _)
first_min_by_score(order, best) ==
    IF order = << >> THEN best
    ELSE first_min_by_score(Tail(order),
            IF best = "none"
               \/ RouterRow(Head(order)).routing_score < RouterRow(best).routing_score
            THEN Head(order) ELSE best)

\* max(healthy_instances, key=routing_score): the first row with the highest
\* routing score, in the order the rows were read
RECURSIVE first_max_by_score(_, _)
first_max_by_score(order, best) ==
    IF order = << >> THEN best
    ELSE first_max_by_score(Tail(order),
            IF best = "none"
               \/ RouterRow(Head(order)).routing_score > RouterRow(best).routing_score
            THEN Head(order) ELSE best)

\* select_instance over the rows read, given in the order the store returned them
select_instance(order) ==
    first_max_by_score(
        SelectSeq(order, LAMBDA i : i \in healthy_instances({order[k] : k \in DOMAIN order})),
        "none")

\* the orders in which the store may return a set of rows
Orders(ids) ==
    {o \in [1..Cardinality(ids) -> ids] : {o[k] : k \in DOMAIN o} = ids}

RtUpstream == {"200", "500", "timeout", "conn_error"}

\* the bodies an upstream response may carry: none, or some bytes
RtBodies == {"", "bytes"}

\* an upstream outcome in which a response was received
Received(upstream) == upstream \in {"200", "500"}

\* forward_request answering 503 on a timeout
forward_status_timeout_unavailable(upstream) ==
    CASE upstream = "200" -> 200
      [] upstream = "500" -> 500
      [] OTHER -> 503

\* forward_request: the status code it returns
forward_status(upstream) ==
    CASE upstream = "200" -> 200
      [] upstream = "500" -> 500
      [] upstream = "timeout" -> 504
      [] OTHER -> 503

\* forward_request: the response data it returns, None ("none") when no
\* response was received
forward_data(upstream, upstream_body) ==
    IF Received(upstream) THEN upstream_body ELSE "none"

\* inference: the body returned to the caller; response_data is used only
\* when it is truthy, an error document takes its place otherwise
inference_body(response_data) ==
    IF response_data \notin {"none", ""} THEN response_data ELSE "error_json"

\* process_request, and the response inference builds from what it returns:
\* select an instance, forward once, count the outcome
ProcessRequest(req, model_pool, order, upstream, upstream_body) ==
    /\ router_stats.total_requests < MaxRequests
    /\ \E selected \in {select_instance(order)} :
           LET status == IF selected = "none" THEN 503 ELSE forward_status(upstream)
               data == IF selected = "none" THEN "none"
                       ELSE forward_data(upstream, upstream_body)
           IN  /\ router_stats' =
                     [total_requests |-> router_stats.total_requests + 1,
                      successful_requests |->
                         router_stats.successful_requests + (IF status = 200 THEN 1 ELSE 0),
                      failed_requests |->
                         router_stats.failed_requests + (IF status = 200 THEN 0 ELSE 1)]
               /\ rt_cache' =
                     IF selected # "none" /\ upstream = "conn_error"
                     THEN rt_cache \cup {selected} ELSE rt_cache
               /\ rt_last' =
                     [model_pool |-> model_pool,
                      read |-> {order[k] : k \in DOMAIN order},
                      selected |-> selected, status |-> status,
                      forwards |-> IF selected = "none" THEN 0 ELSE 1,
                      upstream |-> IF selected = "none" THEN "none" ELSE upstream,
                      upstream_body |-> IF selected # "none" /\ Received(upstream)
                                        THEN upstream_body ELSE "none",
                      body |-> inference_body(data),
                      request |-> req]
               /\ last_op' = [NoOp EXCEPT !.actor = "router", !.op = "process_request",
                                          !.id = selected]
               /\ UNCHANGED <<rqVars, gaVars, amVars, rmVars, pbVars, hmVars, hbVars, now, instances, routing, hm_stale, foVars, asVars>>

\* the requests inference may receive: a complete one, one without payload,
\* and one for each required header missing
RtRequests ==
    {[payload |-> "enc", kms |-> "arn", tenant |-> "t-1"],
     [payload |-> "", kms |-> "arn", tenant |-> "t-1"],
     [payload |-> "enc", kms |-> "", tenant |-> "t-1"],
     [payload |-> "enc", kms |-> "arn", tenant |-> ""]}

\* a validation that looks at the payload only
valid_request_payload_only(req) == req.payload # ""

\* inference: the request passes the validation
valid_request(req) == req.payload # "" /\ req.kms # "" /\ req.tenant # ""

\* inference on a request that fails the validation: 400 is returned before
\* process_request is called
InferenceRejected(req) ==
    /\ rt_last' = [NoRequest EXCEPT !.status = 400, !.body = "error_json",
                                    !.request = req]
    /\ last_op' = [NoOp EXCEPT !.actor = "router", !.op = "inference_rejected"]
    /\ UNCHANGED <<rqVars, gaVars, amVars, rmVars, pbVars, hmVars, hbVars, now, instances, routing, hm_stale, foVars, asVars,
                   router_stats, rt_cache>>

\* inference: validate, then process_request and the response built from it
Inference(req, model_pool, order, upstream, upstream_body) ==
    IF valid_request(req)
    THEN ProcessRequest(req, model_pool, order, upstream, upstream_body)
    ELSE InferenceRejected(req)

\* what the upstream may answer to a request: a response with or without
\* body, a timeout or a connect error; a rejected request reaches no upstream
RtOutcomes(req) ==
    IF valid_request(req)
    THEN {<<u, b>> : u \in RtUpstream, b \in RtBodies} \
            {<<u, b>> \in RtUpstream \X RtBodies : ~Received(u) /\ b # ""}
    ELSE {<<"200", "">>}

RtProbeOutcomes ==
    {[kind |-> "ok", queue_depth |-> 1, rtt |-> 20],
     [kind |-> "conn_error", queue_depth |-> 0, rtt |-> 0]}

NextRouter ==
    \/ \E id \in InstanceIds, p \in ModelPools : RegisterNewInstance(id, LocalRegion, p)
    \/ \E id \in InstanceIds : instances[id].present /\ MarkInstanceAvailable(id)
    \/ \E id \in InstanceIds : instances[id].present /\ BeginDraining(id)
    \/ \E outcomes \in [get_instances_by_region(instances, LocalRegion, "available")
                            -> RtProbeOutcomes] : CheckAllInstances(outcomes)
    \/ \E p \in RtPools :
          \E order \in Orders(get_instances_by_region_and_model(LocalRegion, p)) :
             \E req \in RtRequests : \E out \in RtOutcomes(req) :
                Inference(req, p, order, out[1], out[2])

SpecRouter == Init /\ [][NextRouter]_vars

----------------------------------------------------------------------------
(* Properties of the router's selection *)

\* C5: whenever select_instance returns a worker, no other row that passed
\* the router's filter at that moment has a higher routing score.
C5_SelectedHasTopScore ==
    [][(last_op'.op = "process_request" /\ rt_last'.selected # "none") =>
          /\ rt_last'.selected \in healthy_instances(rt_last'.read)
          /\ \A c \in healthy_instances(rt_last'.read) :
                RouterRow(rt_last'.selected).routing_score
                    >= RouterRow(c).routing_score]_vars

\* C5 witness: the router chose between two candidates of different score
C5_Witness ==
    /\ last_op.op = "process_request"
    /\ rt_last.selected # "none"
    /\ \E c \in healthy_instances(rt_last.read) :
          RouterRow(c).routing_score < RouterRow(rt_last.selected).routing_score

\* C6 (as claimed): the router never forwards to a worker whose routing
\* score is <= 50; without a worker of the pool above 50 the request gets 503
\* and nothing is forwarded.
C6_HardFloor ==
    [][(last_op'.op = "process_request") =>
          /\ rt_last'.forwards > 0
                => RouterRow(rt_last'.selected).routing_score > 50
          /\ (\A i \in rt_last'.read : RouterRow(i).routing_score <= 50)
                => (rt_last'.status = 503 /\ rt_last'.forwards = 0)]_vars

----------------------------------------------------------------------------
(* AutoScaler *)

\* ten times target_rps_per_instance (12.5)
target_rps_per_instance_x10 == 125
min_instances == 2
max_instances == 20
scale_up_threshold_minutes == 2
scale_down_threshold_minutes == 10
cooldown_period_seconds == 300

\* time.time() when the model starts
Epoch == 600

\* steps of the clock the autoscaler model follows, and their length in seconds
MaxAsTicks == 4
AsClockStep == 150

AsIds == {"i-1", "i-2", "i-3"}

\* get_current_rps: the values the metric may have (0 also on a failed read)
AsRps == {0, 100}

\* the row get_scaling_state creates when the region has none
InitialScalingState ==
    [present |-> TRUE, desired_capacity |-> min_instances,
     last_scale_action |-> "none", last_scale_time |-> 0,
     high_rps_since |-> -1, low_rps_since |-> -1]

\* state_mgr.list_gpu_instances(region, status ready): the available workers
list_gpu_instances(tbl, region) == get_instances_by_region(tbl, region, "available")

\* get_current_instance_count
get_current_instance_count(tbl) == Cardinality(list_gpu_instances(tbl, LocalRegion))

\* state_mgr.get_autoscaling_state / get_scaling_state: the row, or the
\* initial one where there is none
get_scaling_state(row) == IF row.present THEN row ELSE InitialScalingState

\* state_mgr.update_autoscaling_state: the row is replaced by the dict given
update_autoscaling_state(row, state) == state

\* state_mgr.delete_gpu_instance: the worker's row is removed
delete_gpu_instance(tbl, id) == [tbl EXCEPT ![id] = NoRow]

\* a timer that python takes as set (neither None nor 0)
IsSet(t) == t > 0

\* should_scale_up waiting for the dwell of should_scale_down
should_scale_up_long_dwell(current_rps, current_count, scaling_state, t) ==
    IF current_count >= max_instances
    THEN [decision |-> FALSE, state |-> scaling_state, wrote |-> FALSE]
    ELSE IF t - scaling_state.last_scale_time < cooldown_period_seconds
    THEN [decision |-> FALSE, state |-> scaling_state, wrote |-> FALSE]
    ELSE IF current_rps * 100 > target_rps_per_instance_x10 * current_count * 12
    THEN IF ~IsSet(scaling_state.high_rps_since)
         THEN [decision |-> FALSE,
               state |-> [scaling_state EXCEPT !.high_rps_since = t],
               wrote |-> TRUE]
         ELSE [decision |-> t - scaling_state.high_rps_since
                               >= scale_down_threshold_minutes * 60,
               state |-> scaling_state, wrote |-> FALSE]
    ELSE IF IsSet(scaling_state.high_rps_since)
    THEN [decision |-> FALSE,
          state |-> [scaling_state EXCEPT !.high_rps_since = -1],
          wrote |-> TRUE]
    ELSE [decision |-> FALSE, state |-> scaling_state, wrote |-> FALSE]

\* should_scale_up: the decision, the dict as it leaves the call, and whether
\* the call wrote the dict to the store
should_scale_up(current_rps, current_count, scaling_state, t) ==
    IF current_count >= max_instances
    THEN [decision |-> FALSE, state |-> scaling_state, wrote |-> FALSE]
    ELSE IF t - scaling_state.last_scale_time < cooldown_period_seconds
    THEN [decision |-> FALSE, state |-> scaling_state, wrote |-> FALSE]
    ELSE IF current_rps * 100 > target_rps_per_instance_x10 * current_count * 12
    THEN IF ~IsSet(scaling_state.high_rps_since)
         THEN [decision |-> FALSE,
               state |-> [scaling_state EXCEPT !.high_rps_since = t],
               wrote |-> TRUE]
         ELSE [decision |-> t - scaling_state.high_rps_since
                               >= scale_up_threshold_minutes * 60,
               state |-> scaling_state, wrote |-> FALSE]
    ELSE IF IsSet(scaling_state.high_rps_since)
    THEN [decision |-> FALSE,
          state |-> [scaling_state EXCEPT !.high_rps_since = -1],
          wrote |-> TRUE]
    ELSE [decision |-> FALSE, state |-> scaling_state, wrote |-> FALSE]

\* should_scale_down, in the same shape
should_scale_down(current_rps, current_count, scaling_state, t) ==
    IF current_count <= min_instances
    THEN [decision |-> FALSE, state |-> scaling_state, wrote |-> FALSE]
    ELSE IF t - scaling_state.last_scale_time < cooldown_period_seconds
    THEN [decision |-> FALSE, state |-> scaling_state, wrote |-> FALSE]
    ELSE IF current_rps * 100 < target_rps_per_instance_x10 * current_count * 5
    THEN IF ~IsSet(scaling_state.low_rps_since)
         THEN [decision |-> FALSE,
               state |-> [scaling_state EXCEPT !.low_rps_since = t],
               wrote |-> TRUE]
         ELSE [decision |-> t - scaling_state.low_rps_since
                               >= scale_down_threshold_minutes * 60,
               state |-> scaling_state, wrote |-> FALSE]
    ELSE IF IsSet(scaling_state.low_rps_since)
    THEN [decision |-> FALSE,
          state |-> [scaling_state EXCEPT !.low_rps_since = -1],
          wrote |-> TRUE]
    ELSE [decision |-> FALSE, state |-> scaling_state, wrote |-> FALSE]

\* the dict scale_up and scale_down write: the row read again, with the new
\* capacity, the action and its time, and both timers cleared
scaled_state(row, capacity, action, t) ==
    [get_scaling_state(row) EXCEPT !.desired_capacity = capacity,
                                   !.last_scale_action = action,
                                   !.last_scale_time = t,
                                   !.high_rps_since = -1,
                                   !.low_rps_since = -1]

\* the action appended to the last two: when, which, by which process, on
\* which count, and the last_scale_time the tick had read
RecordAction(p, action, count) ==
    LET a == [time |-> now, action |-> action, proc |-> p, count |-> count,
              seen |-> as_local[p].state.last_scale_time]
    IN  IF Len(as_actions) < 2 THEN Append(as_actions, a)
        ELSE <<as_actions[2], a>>

\* time passes between and within the ticks
AsClock ==
    /\ now < Epoch + MaxAsTicks * AsClockStep
    /\ now' = now + AsClockStep
    /\ UNCHANGED <<rqVars, gaVars, amVars, rmVars, pbVars, hmVars, hbVars, instances, routing, hm_stale, last_op, foVars, rtVars, asVars>>

\* get_current_rps: the readings CloudWatch may give, a failed call among them
AsMetricReads(rpss) ==
    {[kind |-> "datapoints", rps |-> r] : r \in rpss}
       \cup {[kind |-> "no_datapoints", rps |-> 0], [kind |-> "error", rps |-> 0]}

\* get_current_rps: the average of the datapoints; 0.0 when there are none
\* and 0.0 when the call raises
get_current_rps(reading) ==
    IF reading.kind = "datapoints" THEN reading.rps ELSE 0

\* run(), first part: the metric, the instance count and the scaling state
\* are read; a region without a row gets the initial one
AsReadMetric(p, reading) ==
    /\ as_pc[p] = "idle"
    /\ as_metric' = [as_metric EXCEPT ![p] = reading.kind]
    /\ as_local' = [as_local EXCEPT ![p] =
                       [rps |-> get_current_rps(reading),
                        count |-> get_current_instance_count(instances),
                        state |-> get_scaling_state(as_row)]]
    /\ as_row' = IF as_row.present THEN as_row
                 ELSE update_autoscaling_state(as_row, InitialScalingState)
    /\ as_pc' = [as_pc EXCEPT ![p] = "decide"]
    /\ last_op' = [NoOp EXCEPT !.actor = "autoscaler", !.op = "read"]
    /\ UNCHANGED <<rqVars, gaVars, rmVars, pbVars, hmVars, hbVars, now, instances, routing, hm_stale, foVars, rtVars, as_actions>>

\* run(), first part, on a reading of datapoints that average to rps
AsRead(p, rps) == AsReadMetric(p, [kind |-> "datapoints", rps |-> rps])

\* run(), second part: should_scale_up, and should_scale_down when that said
\* no; each writes the dict it was handed when it starts or resets its timer
AsDecide(p) ==
    LET l == as_local[p]
        up == should_scale_up(l.rps, l.count, l.state, now)
        down == should_scale_down(l.rps, l.count, up.state, now)
    IN  /\ as_pc[p] = "decide"
        /\ as_pc' = [as_pc EXCEPT ![p] =
                        IF up.decision THEN "scale_up"
                        ELSE IF down.decision THEN "scale_down" ELSE "idle"]
        /\ as_row' = IF up.decision THEN as_row
                     ELSE IF down.wrote THEN update_autoscaling_state(as_row, down.state)
                     ELSE IF up.wrote THEN update_autoscaling_state(as_row, up.state)
                     ELSE as_row
        /\ as_local' = [as_local EXCEPT ![p] =
                           IF up.decision \/ down.decision
                           THEN [l EXCEPT !.state = IF up.decision THEN up.state
                                                    ELSE down.state]
                           ELSE NoLocals]
        /\ last_op' = [NoOp EXCEPT !.actor = "autoscaler", !.op = "decide"]
        /\ UNCHANGED <<rqVars, gaVars, amVars, rmVars, pbVars, hmVars, hbVars, now, instances, routing, hm_stale, foVars, rtVars, as_actions>>

\* scale_up(current_count): nothing is launched; the scaling state is read
\* again and written back
AsScaleUp(p) ==
    /\ as_pc[p] = "scale_up"
    /\ as_row' = update_autoscaling_state(as_row,
                    scaled_state(as_row, as_local[p].count + 1, "scale_up", now))
    /\ as_actions' = RecordAction(p, "scale_up", as_local[p].count)
    /\ as_pc' = [as_pc EXCEPT ![p] = "idle"]
    /\ as_local' = [as_local EXCEPT ![p] = NoLocals]
    /\ last_op' = [NoOp EXCEPT !.actor = "autoscaler", !.op = "scale_up"]
    /\ UNCHANGED <<rqVars, gaVars, amVars, rmVars, pbVars, hmVars, hbVars, now, instances, routing, hm_stale, foVars, rtVars>>

\* the score scale_down compares: x.get('routing_score', 0)
victim_score(id) == IF routing[id].present THEN routing[id].routing_score ELSE 0

\* a choice of victim that does not look at the routing score
lowest_routing_score_any(ready) == ready

\* min(instances, key=lambda x: x.get('routing_score', 0)): the workers of
\* the list that min can return, whatever the order of the list
lowest_routing_score(ready) ==
    {v \in ready : \A o \in ready : victim_score(v) <= victim_score(o)}

\* scale_down(current_count): the available worker of lowest routing score
\* is deleted, then the scaling state is read again and written back
AsScaleDown(p) ==
    /\ as_pc[p] = "scale_down"
    /\ LET ready == list_gpu_instances(instances, LocalRegion)
       IN  IF ready = {}
           THEN /\ UNCHANGED <<instances, as_row, as_actions>>
                /\ last_op' = [NoOp EXCEPT !.actor = "autoscaler", !.op = "scale_down"]
           ELSE \E victim \in lowest_routing_score(ready) :
                   /\ instances' = delete_gpu_instance(instances, victim)
                   /\ as_row' = update_autoscaling_state(as_row,
                          scaled_state(as_row, as_local[p].count - 1, "scale_down", now))
                   /\ as_actions' = RecordAction(p, "scale_down", as_local[p].count)
                   /\ last_op' = [NoOp EXCEPT !.actor = "autoscaler",
                                              !.op = "scale_down", !.id = victim]
    /\ as_pc' = [as_pc EXCEPT ![p] = "idle"]
    /\ as_local' = [as_local EXCEPT ![p] = NoLocals]
    /\ UNCHANGED <<rqVars, gaVars, amVars, rmVars, pbVars, hmVars, hbVars, now, routing, hm_stale, foVars, rtVars>>

\* three workers of the region, registered and marked available
InitAutoscaler ==
    /\ now = Epoch
    /\ instances = FleetInstances(AsIds, AsIds, [i \in AsIds |-> LocalRegion], Epoch)
    /\ routing = FleetRouting(AsIds, AsIds, [i \in AsIds |-> LocalRegion], Epoch)
    /\ hm_stale = {}
    /\ last_op = NoOp
    /\ InitControllers

\* the autoscaler processes of the region, running their ticks concurrently
NextAutoscaler ==
    \/ AsClock
    \/ \E p \in AsProcs, rps \in AsRps : AsRead(p, rps)
    \/ \E p \in AsProcs : AsDecide(p)
    \/ \E p \in AsProcs : AsScaleUp(p)
    \/ \E p \in AsProcs : AsScaleDown(p)

SpecAutoscaler == InitAutoscaler /\ [][NextAutoscaler]_vars

\* one autoscaler process next to the health monitor of the region
NextFleet ==
    \/ AsClock
    \/ \E rps \in AsRps : AsRead(1, rps)
    \/ AsDecide(1)
    \/ AsScaleUp(1)
    \/ AsScaleDown(1)
    \/ DetectStaleInstances
    \/ \E id \in AsIds : MarkInstanceUnhealthy(id)

SpecFleet == InitAutoscaler /\ [][NextFleet]_vars

----------------------------------------------------------------------------
(* Properties of the autoscaler *)

\* C2 (as claimed): any two consecutive scaling actions of the region's
\* autoscaler, scale_up or scale_down in any combination, are at least
\* cooldown_period_seconds apart.
C2_CooldownBetweenActions ==
    Len(as_actions) = 2 =>
        as_actions[2].time - as_actions[1].time >= cooldown_period_seconds

\* C3 (as claimed): of two ticks in different processes that decided to scale
\* on the same value of last_scale_time, at most one performs its action:
\* the write of last_scale_time succeeds only on the value that was read.
C3_OneWinnerPerRead ==
    (Len(as_actions) = 2 /\ as_actions[1].proc # as_actions[2].proc)
        => as_actions[1].seen # as_actions[2].seen

\* the available workers of the region
AvailableCount == Cardinality(get_instances_by_region(instances, LocalRegion, "available"))

\* C4 (as claimed): outside one cooldown window after a scaling action the
\* number of available workers of the region is between min_instances and
\* max_instances; no scale_up was taken on a count >= max_instances and no
\* scale_down on a count <= min_instances.
C4_FleetBounds ==
    /\ (as_actions = << >>
        \/ now - as_actions[Len(as_actions)].time > cooldown_period_seconds)
          => (min_instances <= AvailableCount /\ AvailableCount <= max_instances)
    /\ \A k \in DOMAIN as_actions :
          /\ as_actions[k].action = "scale_up" => as_actions[k].count < max_instances
          /\ as_actions[k].action = "scale_down" => as_actions[k].count > min_instances

----------------------------------------------------------------------------
(* Further properties of the failover state machine *)

\* C13 (as claimed): a tick that reads a healthy ratio below the failover
\* threshold while no sibling region holds an available worker leaves the
\* handler in FAILOVER_ACTIVE.
C13_FailoverWithoutTargets ==
    [][(/\ last_op'.op = "tick"
        /\ region_health'.total_instances > 0
        /\ region_health'.healthy_instances * 100
              < unhealthy_threshold * region_health'.total_instances
        /\ healthy_targets(instances, LocalRegion) = << >>)
          => failover_state' = "failover_active"]_vars

\* the regions other than r
OtherRegions(r) == {all_regions[k] : k \in DOMAIN all_regions} \ {r}

\* C14: the routing preference is determined by the state of the handler:
\* NORMAL local 100, others 10; DEGRADED local 70, others 30; RECOVERING
\* local 50, others 25; FAILOVER_ACTIVE local 5, nearest target 80, second
\* target 15; every weight lies in 0..100.
C14_WeightsByState ==
    LET pref == get_routing_preference(LocalRegion, failover_state)
        targets == get_failover_targets(LocalRegion)
        others == OtherRegions(LocalRegion)
    IN  /\ \A r \in DOMAIN pref : pref[r] \in 0..100
        /\ failover_state = "normal" =>
              (pref[LocalRegion] = 100 /\ \A r \in others : pref[r] = 10)
        /\ failover_state = "degraded" =>
              (pref[LocalRegion] = 70 /\ \A r \in others : pref[r] = 30)
        /\ failover_state = "recovering" =>
              (pref[LocalRegion] = 50 /\ \A r \in others : pref[r] = 25)
        /\ failover_state = "failover_active" =>
              /\ pref[LocalRegion] = 5
              /\ pref[targets[1].target_region] = 80
              /\ pref[targets[2].target_region] = 15

\* C14 witness: the handler is in FAILOVER_ACTIVE after a failover to both
\* sibling regions, the nearer one carrying the weight 80
C14_Witness ==
    /\ failover_state = "failover_active"
    /\ Len(failover_events) = 1
    /\ get_failover_targets(LocalRegion)[1].target_region = "us-east-2"
    /\ get_routing_preference(LocalRegion, failover_state)["us-east-2"] = 80

----------------------------------------------------------------------------
(* Properties of the router's forwarding *)

\* C17 (as claimed): after a connect error on the selected worker the router
\* demotes it and forwards the request once more, to the next-best
\* candidate; the caller gets an error only when there is no other
\* candidate or the retry fails too.
C17_ConnectErrorRetriesOnce ==
    [][(/\ last_op'.op = "process_request"
        /\ rt_last'.upstream = "conn_error"
        /\ healthy_instances(rt_last'.read) \ {rt_last'.selected} # {})
          => (rt_last'.selected \in rt_cache' /\ rt_last'.forwards = 2)]_vars

\* C18: a forward that times out ends the request with 504 after exactly
\* one forward attempt.
C18_TimeoutNoRetry ==
    [][(last_op'.op = "process_request" /\ rt_last'.upstream = "timeout")
          => (/\ rt_last'.status = 504
              /\ rt_last'.forwards = 1
              /\ router_stats'.failed_requests = router_stats.failed_requests + 1
              /\ rt_cache' = rt_cache)]_vars

\* C18 witness: a request timed out while another candidate was available
C18_Witness ==
    /\ last_op.op = "process_request"
    /\ rt_last.upstream = "timeout"
    /\ rt_last.status = 504
    /\ healthy_instances(rt_last.read) \ {rt_last.selected} # {}

\* C19 (as claimed): for every upstream response received the caller gets
\* the upstream status and the upstream body unchanged, an empty body
\* included.
C19_PassThrough ==
    [][(last_op'.op = "process_request" /\ Received(rt_last'.upstream))
          => (/\ rt_last'.status = forward_status(rt_last'.upstream)
              /\ rt_last'.body = rt_last'.upstream_body)]_vars

----------------------------------------------------------------------------
(* StateManager: heartbeat and update_instance_state calls in flight.  Each
   call evaluates int(time.time()) while it builds the arguments of
   update_item; the store applies the update when the request arrives. *)

\* the states the writers of the model set
HbStates == {"available", "draining"}

\* table.update_item of a prepared call: SET last_heartbeat = :heartbeat
\* together with queue_depth (heartbeat) or state (update_instance_state)
update_item(tbl, w) ==
    [tbl EXCEPT ![w.id] =
        IF w.op = "heartbeat"
        THEN [@ EXCEPT !.present = TRUE, !.last_heartbeat = w.t, !.queue_depth = w.q]
        ELSE [@ EXCEPT !.present = TRUE, !.state = w.state, !.last_heartbeat = w.t,
                       !.queue_depth = IF w.q = -1 THEN @ ELSE w.q]]

\* heartbeat up to the call of update_item: the timestamp is taken
PrepareHeartbeat(w, id, q) ==
    /\ hb_pending[w] = NoWrite
    /\ hb_pending' = [hb_pending EXCEPT ![w] =
          [op |-> "heartbeat", id |-> id, t |-> now, q |-> q, state |-> "none"]]
    /\ UNCHANGED <<rqVars, gaVars, amVars, rmVars, pbVars, now, instances, routing, hm_stale, last_op, foVars, rtVars, asVars,
                   hmVars>>

\* update_instance_state up to the call of update_item
PrepareStateUpdate(w, id, st) ==
    /\ hb_pending[w] = NoWrite
    /\ hb_pending' = [hb_pending EXCEPT ![w] =
          [op |-> "update_instance_state", id |-> id, t |-> now, q |-> -1,
           state |-> st]]
    /\ UNCHANGED <<rqVars, gaVars, amVars, rmVars, pbVars, now, instances, routing, hm_stale, last_op, foVars, rtVars, asVars,
                   hmVars>>

\* the store applies the prepared update
ApplyWrite(w) ==
    /\ hb_pending[w] # NoWrite
    /\ instances' = update_item(instances, hb_pending[w])
    /\ hb_pending' = [hb_pending EXCEPT ![w] = NoWrite]
    /\ last_op' = Op("writer", hb_pending[w].op, hb_pending[w].id)
    /\ UNCHANGED <<rqVars, gaVars, amVars, rmVars, pbVars, now, routing, hm_stale, foVars, rtVars, asVars, hmVars>>

\* both workers registered and available at time 0
InitHeartbeat ==
    /\ now = 0
    /\ instances = FleetInstances(InstanceIds, InstanceIds,
                                  [i \in InstanceIds |-> LocalRegion], 0)
    /\ routing = FleetRouting(InstanceIds, InstanceIds,
                              [i \in InstanceIds |-> LocalRegion], 0)
    /\ hm_stale = {}
    /\ last_op = NoOp
    /\ InitControllers

NextHeartbeat ==
    \/ Clock
    \/ \E w \in HbWriters, id \in InstanceIds, q \in QueueDepths :
          PrepareHeartbeat(w, id, q)
    \/ \E w \in HbWriters, id \in InstanceIds, st \in HbStates :
          PrepareStateUpdate(w, id, st)
    \/ \E w \in HbWriters : ApplyWrite(w)

SpecHeartbeat == InitHeartbeat /\ [][NextHeartbeat]_vars

\* C16: the stored last_heartbeat of a worker never decreases, whatever the
\* interleaving of heartbeat and update_instance_state calls that take their
\* timestamp before the store applies the write
C16_HeartbeatMonotone ==
    [][\A i \in InstanceIds :
          instances[i].present /\ instances'[i].present
             => instances'[i].last_heartbeat >= instances[i].last_heartbeat]_vars

----------------------------------------------------------------------------
(* HealthMonitor: the probe cycles in time.  run_health_check_loop runs a
   cycle, the stale heartbeat handling and a sleep of health_check_interval;
   run_failover_monitor_loop runs a cycle on the monitor it is given, the
   failover decision and a sleep of check_interval.  A probe returns within
   timeout_seconds; store calls take no time. *)

\* seconds between two cycles of run_health_check_loop
health_check_interval == 30

\* seconds after which a probe gives up
timeout_seconds == 10

\* seconds between two passes of run_failover_monitor_loop
check_interval == 60

\* seconds per clock step of the monitor
HmStep == 10

\* clock steps the monitor is followed for
MaxHmSteps == 6

\* seconds between the registration of the fleet and the start of the loops
HmFleetAge == 60

\* seconds between two heartbeats of a live worker
HmHeartbeatPeriod == 30

HmProbeOutcomes ==
    {[kind |-> "ok", queue_depth |-> 1, rtt |-> 20],
     [kind |-> "conn_error", queue_depth |-> 0, rtt |-> 0]}

\* the workers of the model that keep sending heartbeats
HmLiveIds == {"i-2"}

\* the time of the last increment of the failure counter of id, -1 if none
LastIncrement(id) ==
    IF id \in DOMAIN hm_increments THEN hm_increments[id] ELSE -1

\* as_completed yields every future once
remaining_probes(todo, id) == todo \ {id}

\* time passes: a sleeping loop wakes when its sleep ends, a probe in flight
\* returns before its timeout
MonitorClock ==
    /\ now < Epoch + MaxHmSteps * HmStep
    /\ \A l \in HmLoops :
          /\ hm_pc[l] = "sleep" => now < hm_wake[l]
          /\ hm_pc[l] = "probing" => now < hm_cycle_start[l] + timeout_seconds
          /\ hm_pc[l] # "stale"
    /\ now' = now + HmStep
    /\ UNCHANGED <<rqVars, gaVars, amVars, rmVars, pbVars, instances, routing, hm_stale, last_op, foVars, rtVars, asVars,
                   hmVars, hbVars>>

\* check_all_instances up to the submission of the probes: the available
\* instances of the region are read
HmBeginCycle(l) ==
    /\ hm_pc[l] = "sleep"
    /\ now >= hm_wake[l]
    /\ hm_pc' = [hm_pc EXCEPT ![l] = "probing"]
    /\ hm_todo' = [hm_todo EXCEPT
                      ![l] = get_instances_by_region(instances, LocalRegion, "available")]
    /\ hm_results' = [hm_results EXCEPT ![l] = << >>]
    /\ hm_running' = hm_running + 1
    /\ hm_cycle_start' = [hm_cycle_start EXCEPT ![l] = now]
    /\ last_op' = [NoOp EXCEPT !.actor = l, !.op = "check_all_instances"]
    /\ UNCHANGED <<rqVars, gaVars, amVars, rmVars, pbVars, now, instances, routing, hm_stale, foVars, rtVars, asVars,
                   hm_wake, hm_increments, hbVars>>

\* one probe completes: check_instance_health has kept the failure counter,
\* _update_routing_health writes the routing row
HmProbe(l, id, o) ==
    LET h == check_instance_health(id, o) IN
    /\ hm_pc[l] = "probing"
    /\ id \in hm_todo[l]
    /\ h.consecutive_failures <= MaxFailures
    /\ failure_counts' =
          [i \in DOMAIN failure_counts \cup {id} |->
              IF i = id THEN h.consecutive_failures ELSE failure_counts[i]]
    /\ hm_increments' =
          IF o.kind = "ok" THEN hm_increments
          ELSE [i \in DOMAIN hm_increments \cup {id} |->
                   IF i = id THEN now ELSE hm_increments[i]]
    /\ routing' = update_routing_health(routing, h)
    /\ hm_todo' = [hm_todo EXCEPT ![l] = remaining_probes(@, id)]
    /\ hm_results' = [hm_results EXCEPT
                         ![l] = [i \in DOMAIN @ \cup {id} |-> IF i = id THEN h ELSE @[i]]]
    /\ last_op' = Op(l, "check_instance_health", id)
    /\ UNCHANGED <<rqVars, gaVars, amVars, rmVars, pbVars, now, instances, hm_stale, failover_state, failover_events,
                   fo_metrics, scaling_decisions, region_health, rtVars, asVars,
                   hm_pc, hm_running, hm_wake, hm_cycle_start, hbVars>>

\* run_health_check_loop after check_all_instances has returned:
\* detect_stale_instances
HmDetectStale ==
    /\ hm_pc["health_check"] = "probing"
    /\ hm_todo["health_check"] = {}
    /\ hm_running' = hm_running - 1
    /\ hm_stale' = detect_stale_instances(instances)
    /\ hm_pc' = [hm_pc EXCEPT !["health_check"] = "stale"]
    /\ hm_results' = [hm_results EXCEPT !["health_check"] = << >>]
    /\ last_op' = [NoOp EXCEPT !.actor = "health_check",
                               !.op = "detect_stale_instances"]
    /\ UNCHANGED <<rqVars, gaVars, amVars, rmVars, pbVars, now, instances, routing, foVars, rtVars, asVars, hm_todo,
                   hm_wake, hm_cycle_start, hm_increments, hbVars>>

\* run_health_check_loop: mark_instance_unhealthy for one stale instance
HmMarkStale(id) ==
    /\ hm_pc["health_check"] = "stale"
    /\ MarkInstanceUnhealthy(id)

\* run_health_check_loop: time.sleep(health_check_interval)
HmSleep ==
    /\ hm_pc["health_check"] = "stale"
    /\ hm_stale = {}
    /\ hm_pc' = [hm_pc EXCEPT !["health_check"] = "sleep"]
    /\ hm_wake' = [hm_wake EXCEPT !["health_check"] = now + health_check_interval]
    /\ last_op' = [NoOp EXCEPT !.actor = "health_check", !.op = "sleep"]
    /\ UNCHANGED <<rqVars, gaVars, amVars, rmVars, pbVars, now, instances, routing, hm_stale, foVars, rtVars, asVars,
                   hm_todo, hm_results, hm_running, hm_cycle_start, hm_increments,
                   hbVars>>

\* run_failover_monitor_loop after check_all_instances has returned:
\* check_and_handle_failover, then time.sleep(check_interval)
FoFinishTick ==
    /\ hm_pc["failover_monitor"] = "probing"
    /\ hm_todo["failover_monitor"] = {}
    /\ hm_running' = hm_running - 1
    /\ FailoverDecide(hm_results["failover_monitor"])
    /\ hm_pc' = [hm_pc EXCEPT !["failover_monitor"] = "sleep"]
    /\ hm_wake' = [hm_wake EXCEPT !["failover_monitor"] = now + check_interval]
    /\ hm_results' = [hm_results EXCEPT !["failover_monitor"] = << >>]
    /\ last_op' = [NoOp EXCEPT !.actor = "failover", !.op = "tick"]
    /\ UNCHANGED <<rqVars, gaVars, amVars, rmVars, pbVars, now, instances, routing, hm_stale, failure_counts, rtVars, asVars,
                   hm_todo, hm_cycle_start, hm_increments, hbVars>>

\* a live worker sends the heartbeat that is due
HmHeartbeat(id) ==
    /\ instances[id].last_heartbeat + HmHeartbeatPeriod <= now
    /\ SendHeartbeat(id, 0)

\* both workers registered and available HmFleetAge seconds ago
InitMonitor ==
    /\ now = Epoch
    /\ instances = FleetInstances(InstanceIds, InstanceIds,
                                  [i \in InstanceIds |-> LocalRegion],
                                  Epoch - HmFleetAge)
    /\ routing = FleetRouting(InstanceIds, InstanceIds,
                              [i \in InstanceIds |-> LocalRegion],
                              Epoch - HmFleetAge)
    /\ hm_stale = {}
    /\ last_op = NoOp
    /\ InitControllers

NextMonitor ==
    \/ MonitorClock
    \/ \E l \in HmLoops : HmBeginCycle(l)
    \/ \E l \in HmLoops : \E id \in hm_todo[l], o \in HmProbeOutcomes : HmProbe(l, id, o)
    \/ HmDetectStale
    \/ \E id \in InstanceIds : HmMarkStale(id)
    \/ HmSleep
    \/ FoFinishTick
    \/ \E id \in HmLiveIds : HmHeartbeat(id)

SpecMonitor == InitMonitor /\ [][NextMonitor]_vars

----------------------------------------------------------------------------
(* Properties of the probe cycles *)

\* worker i is a row of the region in state st
LocalInState(i, st) ==
    /\ instances[i].present
    /\ instances[i].region = LocalRegion
    /\ instances[i].state = st

StaleHeartbeat(i) ==
    /\ instances[i].present
    /\ instances[i].region = LocalRegion
    /\ instances[i].state \in {"available", "draining"}
    /\ instances[i].last_heartbeat < now - stale_timeout_seconds

\* C12: a cycle of run_health_check_loop detects every worker with a stale
\* heartbeat, leaves each of them draining with routing score 0 before it
\* sleeps, and while a worker stays draining no write gives its row a positive
\* routing score and select_instance never returns it.
C12_StaleHeartbeat ==
    [][/\ (hm_pc["health_check"] = "probing" /\ hm_pc'["health_check"] = "stale")
             => \A i \in InstanceIds : StaleHeartbeat(i) => i \in hm_stale'
       /\ \A i \in hm_stale \ hm_stale' :
             /\ instances'[i].state = "draining"
             /\ routing'[i].routing_score = 0
       /\ hm_pc'["health_check"] = "sleep" => hm_stale' = {}
       /\ \A i \in InstanceIds :
             (/\ instances[i].state = "draining"
              /\ instances'[i].state = "draining"
              /\ routing[i].present
              /\ routing[i].routing_score = 0)
                => routing'[i].routing_score = 0
       /\ \A i \in InstanceIds : \A order \in Orders(InstanceIds) :
             instances[i].state = "draining" => select_instance(order) # i]_vars

\* C15: at no time are two executions of check_all_instances in progress on
\* the monitor, and two increments of a worker's failure counter are at least
\* one health check interval apart.
C15_CyclesDoNotOverlap ==
    [][/\ hm_running' <= 1
       /\ \A i \in InstanceIds :
             (i \in DOMAIN failure_counts' /\ failure_counts'[i] > FailureCount(i)
              /\ LastIncrement(i) >= 0)
                => now - LastIncrement(i) >= health_check_interval]_vars

----------------------------------------------------------------------------
(* Further properties of the autoscaler *)

\* process p ends a tick in this step
TickEnds(p) == as_pc[p] # "idle" /\ as_pc'[p] = "idle"

\* C21 (as claimed): every tick of the autoscaler appends exactly one
\* ScalingDecision row, whose action is scale_up, scale_down or none.
C21_ScalingAudit ==
    [][\A p \in AsProcs :
          TickEnds(p) =>
             /\ Len(scaling_decisions') = Len(scaling_decisions) + 1
             /\ scaling_decisions'[Len(scaling_decisions')].scaling_action
                   \in {"scale_up", "scale_down", "none"}]_vars

----------------------------------------------------------------------------
(* InstanceRegistry.update_routing_metrics *)

RmQueueDepths == {0, 3, 11}
RmLatencies == {0, 505, 2000}
RmHealth == {"healthy", "degraded", "unhealthy"}

\* queue_score = max(0, 100 - queue_depth * 10)
queue_score(q) == Max(0, 100 - q * 10)

\* ten times latency_score = max(0, 100 - avg_latency_ms / 10)
latency_score_x10(lat) == Max(0, 1000 - lat)

\* a hundred times routing_score = queue_score * 0.5 + latency_score * 0.3
\* + health_score * 0.2
routing_score_x100(q, lat, h) ==
    queue_score(q) * 50 + latency_score_x10(lat) * 3 + health_score(h) * 20

\* the metadata attribute of a row as the store returns it: register_instance
\* writes json.dumps(metadata or {}), a string; a row that update_item created
\* has none
metadata(row) == IF row.launch_time >= 0 THEN "json_string" ELSE "absent"

\* instance.get('metadata', {}).get('subnet_cidr', '0.0.0.0/0'): the default
\* where the attribute is absent; a string has no get
subnet_cidr(row) ==
    IF metadata(row) = "absent" THEN "0.0.0.0/0" ELSE "AttributeError"

\* update_routing_metrics: the routing table after the call and what the call
\* returned or raised
update_routing_metrics(tbl_instances, tbl_routing, id, q, lat, h) ==
    IF id \notin get_instances_by_region(tbl_instances, LocalRegion, "any")
    THEN [routing |-> tbl_routing, result |-> "False"]
    ELSE IF subnet_cidr(tbl_instances[id]) = "AttributeError"
    THEN [routing |-> tbl_routing, result |-> "AttributeError"]
    ELSE [routing |-> update_routing_state(tbl_routing, id, LocalRegion,
                         routing_score_x100(q, lat, h), 100, q, lat, h),
          result |-> "True"]

UpdateRoutingMetrics(id, q, lat, h) ==
    LET r == update_routing_metrics(instances, routing, id, q, lat, h) IN
    /\ routing' = r.routing
    /\ rm_last' = [instance_id |-> id, queue_depth |-> q, avg_latency_ms |-> lat,
                   health_status |-> h, result |-> r.result]
    /\ last_op' = Op("worker", "update_routing_metrics", id)
    /\ UNCHANGED <<rqVars, gaVars, amVars, now, instances, hm_stale, foVars, rtVars, asVars, hmVars, hbVars,
                   pbVars>>

\* workers that register, send heartbeats and report their routing metrics
NextMetrics ==
    \/ Clock
    \/ \E id \in InstanceIds, p \in ModelPools : RegisterNewInstance(id, LocalRegion, p)
    \/ \E id \in InstanceIds : SendHeartbeat(id, 0)
    \/ \E id \in InstanceIds, q \in RmQueueDepths, lat \in RmLatencies, h \in RmHealth :
          UpdateRoutingMetrics(id, q, lat, h)

SpecMetrics == Init /\ [][NextMetrics]_vars

\* C22 (as claimed): after update_routing_metrics on a registered worker the
\* stored routing score is the floor of 0.5 * queue_score + 0.3 * latency_score
\* + 0.2 * health_score of the values reported, it lies in 0..100, and flooring
\* each product before the sum gives the same integer.
C22_RoutingScoreFormula ==
    [][\A id \in InstanceIds :
          (Called("update_routing_metrics", id) /\ instances[id].region = LocalRegion)
             => LET c == rm_last'
                    x100 == routing_score_x100(c.queue_depth, c.avg_latency_ms,
                                               c.health_status)
                IN  /\ routing'[id].present
                    /\ routing'[id].last_updated = now
                    /\ routing'[id].routing_score = x100 \div 100
                    /\ routing'[id].routing_score \in 0..100
                    /\ (queue_score(c.queue_depth) * 50) \div 100
                         + (latency_score_x10(c.avg_latency_ms) * 3) \div 100
                         + (health_score(c.health_status) * 20) \div 100
                       = x100 \div 100]_vars

----------------------------------------------------------------------------
(* HealthMonitor.check_instance_health on its own: a series of probes *)

\* what a probe may come back with: HTTP 200 with a JSON body (queue depth and
\* round trip time at and beyond the limits), HTTP 200 with a body that
\* response.json() rejects, another status code, a timeout, a connect error
PbOutcomes ==
    {[kind |-> "ok", queue_depth |-> 1, rtt |-> 20],
     [kind |-> "ok", queue_depth |-> 8, rtt |-> 5000],
     [kind |-> "ok", queue_depth |-> 9, rtt |-> 20],
     [kind |-> "ok", queue_depth |-> 1, rtt |-> 5001],
     [kind |-> "bad_json", queue_depth |-> 0, rtt |-> 20],
     [kind |-> "http_error", queue_depth |-> 0, rtt |-> 20],
     [kind |-> "timeout", queue_depth |-> 0, rtt |-> 10000],
     [kind |-> "conn_error", queue_depth |-> 0, rtt |-> 0]}

\* response.status_code == 200
Http200(o) == o.kind \in {"ok", "bad_json"}

\* probes of id without HTTP 200 in a row
ProbeRun(id) == IF id \in DOMAIN probe_run THEN probe_run[id] ELSE 0

\* one call of check_instance_health
Probe(id, o) ==
    LET h == check_instance_health(id, o) IN
    /\ h.consecutive_failures <= MaxFailures
    /\ failure_counts' =
          [i \in DOMAIN failure_counts \cup {id} |->
              IF i = id THEN h.consecutive_failures ELSE failure_counts[i]]
    /\ probe_last' = [instance_id |-> id, outcome |-> o, health |-> h,
                      before |-> FailureCount(id)]
    /\ probe_run' =
          [i \in DOMAIN probe_run \cup {id} |->
              IF i # id THEN probe_run[i]
              ELSE IF Http200(o) THEN 0 ELSE ProbeRun(id) + 1]
    /\ last_op' = Op("health_monitor", "check_instance_health", id)
    /\ UNCHANGED <<rqVars, gaVars, amVars, now, instances, routing, hm_stale, failover_state, failover_events,
                   fo_metrics, scaling_decisions, region_health, rtVars, asVars,
                   hmVars, hbVars, rmVars>>

NextProbe == \E id \in InstanceIds, o \in PbOutcomes : Probe(id, o)

SpecProbe == Init /\ [][NextProbe]_vars

\* C23 (as claimed): a probe that returns HTTP 200 leaves the failure counter
\* at 0 and yields healthy if queue_depth <= 8 and RTT <= 5000 ms, else
\* degraded; any other probe adds one to the counter and yields unhealthy if
\* the counter is then >= failure_threshold, else degraded; a worker is
\* classified unhealthy only after failure_threshold probes without HTTP 200
\* in a row.
C23_ProbeClassification ==
    [][\A id \in InstanceIds :
          (Called("check_instance_health", id) /\ probe_last'.instance_id = id)
             => LET o == probe_last'.outcome
                    h == probe_last'.health
                IN  /\ Http200(o) =>
                          /\ failure_counts'[id] = 0
                          /\ h.status \in {"healthy", "degraded"}
                          /\ h.status = "healthy"
                                <=> (o.queue_depth <= 8 /\ o.rtt <= 5000)
                    /\ ~Http200(o) =>
                          /\ failure_counts'[id] = probe_last'.before + 1
                          /\ h.status \in {"unhealthy", "degraded"}
                          /\ h.status = "unhealthy"
                                <=> failure_counts'[id] >= failure_threshold
                    /\ h.status = "unhealthy" => probe_run'[id] >= failure_threshold]_vars

----------------------------------------------------------------------------
(* HealthMonitor.calculate_region_health on its own: any list of results *)

RhIds == {"i-1", "i-2", "i-3", "i-4", "i-5"}
RhStatuses == {"healthy", "degraded", "unhealthy"}

\* the InstanceHealth list of a probe cycle with the given statuses
HealthsOf(statuses) ==
    [i \in DOMAIN statuses |->
        [instance_id |-> i, status |-> statuses[i], consecutive_failures |-> 0,
         response_time_ms |-> 0]]

\* a probe cycle has returned its results: calculate_region_health
RegionHealthCheck(statuses) ==
    /\ hm_results' = [hm_results EXCEPT !["health_check"] = HealthsOf(statuses)]
    /\ region_health' = calculate_region_health(HealthsOf(statuses))
    /\ last_op' = [NoOp EXCEPT !.actor = "health_monitor",
                               !.op = "calculate_region_health"]
    /\ UNCHANGED <<rqVars, gaVars, amVars, now, instances, routing, hm_stale, failure_counts, failover_state,
                   failover_events, fo_metrics, scaling_decisions, rtVars, asVars,
                   hm_pc, hm_todo, hm_running, hm_wake, hm_cycle_start, hm_increments,
                   hbVars, rmVars, pbVars>>

NextRegionHealth ==
    \E ids \in SUBSET RhIds : \E statuses \in [ids -> RhStatuses] :
        RegionHealthCheck(statuses)

SpecRegionHealth == Init /\ [][NextRegionHealth]_vars

\* C24: the region status is healthy iff at least 80% of the results are
\* healthy (exactly 80% included), degraded iff at least 50% and less than
\* 80% are, unhealthy otherwise; no results give unhealthy with total 0 and
\* the reason "No instances available", and evaluate_region_health
\* recommends FAILOVER_ACTIVE on total 0.
C24_RegionHealth ==
    last_op.op = "calculate_region_health" =>
       LET results == hm_results["health_check"]
           total == Cardinality(DOMAIN results)
           healthy == Cardinality({i \in DOMAIN results :
                                      results[i].status = "healthy"})
           rh == region_health
       IN  /\ rh.total_instances = total
           /\ rh.healthy_instances = healthy
           /\ rh.status \in RhStatuses
           /\ total = 0 =>
                 /\ rh.status = "unhealthy"
                 /\ rh.degraded_reason = "No instances available"
                 /\ \A current \in {"normal", "degraded", "failover_active",
                                    "recovering"} :
                       evaluate_region_health(rh, current) = "failover_active"
           /\ total > 0 =>
                 /\ rh.status = "healthy" <=> healthy * 100 >= 80 * total
                 /\ rh.status = "degraded"
                       <=> (healthy * 100 >= 50 * total /\ healthy * 100 < 80 * total)
                 /\ rh.status = "unhealthy" <=> healthy * 100 < 50 * total

\* C24 witness: exactly four of five results are healthy and the region is
\* healthy
C24_Witness ==
    /\ last_op.op = "calculate_region_health"
    /\ region_health.total_instances = 5
    /\ region_health.healthy_instances = 4
    /\ region_health.status = "healthy"

----------------------------------------------------------------------------
(* Further properties of the failover targets *)

\* C25 (as claimed): while the handler is in FAILOVER_ACTIVE the region with
\* weight 80 is the first of the latency-sorted sibling regions that hold an
\* available worker, so no region without an available worker has weight 80.
C25_TargetsHaveCapacity ==
    failover_state = "failover_active" =>
       LET pref == get_routing_preference(LocalRegion, failover_state)
           live == healthy_targets(instances, LocalRegion)
       IN  /\ live # << >>
           /\ pref[live[1]] = 80
           /\ \A r \in DOMAIN pref :
                 pref[r] = 80 =>
                    get_instances_by_region(instances, r, "available") # {}

----------------------------------------------------------------------------
(* Dwell timers of the autoscaler *)

\* the tick of process p reaches the end of its decision
Decides(p) == as_pc[p] = "decide" /\ as_pc'[p] # "decide"

\* current_rps > 1.2 * target_rps_per_instance * count, on what the tick read
HighRps(l) == l.rps * 100 > target_rps_per_instance_x10 * l.count * 12

\* current_rps < 0.5 * target_rps_per_instance * count, on what the tick read
LowRps(l) == l.rps * 100 < target_rps_per_instance_x10 * l.count * 5

\* C27 (as claimed): a tick decides on scale_down only if count > min_instances,
\* current_rps < 0.5 * target_rps_per_instance * count and low_rps_since is at
\* least 600 s old; and every tick at which the inequality does not hold
\* leaves low_rps_since null, also a tick that returns early because
\* count <= min_instances or because of the cooldown.
C27_ScaleDownDwell ==
    [][Decides(1) =>
          LET l == as_local[1]
          IN  /\ as_pc'[1] = "scale_down" =>
                    /\ l.count > min_instances
                    /\ LowRps(l)
                    /\ IsSet(l.state.low_rps_since)
                    /\ now - l.state.low_rps_since
                          >= scale_down_threshold_minutes * 60
              /\ ~LowRps(l) => ~IsSet(as_row'.low_rps_since)]_vars


\* a region one worker short of max_instances: nineteen available workers and
\* a twentieth that registers, becomes available and drains
CapIds ==
    {"i-1", "i-2", "i-3", "i-4", "i-5", "i-6", "i-7", "i-8", "i-9", "i-10",
     "i-11", "i-12", "i-13", "i-14", "i-15", "i-16", "i-17", "i-18", "i-19",
     "i-20"}

CapJoiner == "i-20"

\* get_current_rps at that size of fleet: none, or above 1.2 * 12.5 * 19
CapRps == {0, 300}

InitCapacity ==
    /\ now = Epoch
    /\ instances = FleetInstances(CapIds, CapIds \ {CapJoiner},
                                  [i \in CapIds |-> LocalRegion], Epoch)
    /\ routing = FleetRouting(CapIds, CapIds \ {CapJoiner},
                              [i \in CapIds |-> LocalRegion], Epoch)
    /\ hm_stale = {}
    /\ last_op = NoOp
    /\ InitControllers

NextCapacity ==
    \/ AsClock
    \/ \E rps \in CapRps : AsRead(1, rps)
    \/ AsDecide(1)
    \/ AsScaleUp(1)
    \/ AsScaleDown(1)
    \/ RegisterNewInstance(CapJoiner, LocalRegion, "model-a")
    \/ MarkInstanceAvailable(CapJoiner)
    \/ BeginDraining(CapJoiner)

SpecCapacity == InitCapacity /\ [][NextCapacity]_vars

\* C26 (as claimed): a tick decides on scale_up only if current_rps >
\* 1.2 * target_rps_per_instance * count and high_rps_since is at least 120 s
\* old; and every tick at which the inequality does not hold leaves
\* high_rps_since null, also a tick that returns early because the fleet is
\* at max_instances or because of the cooldown.
C26_ScaleUpDwell ==
    [][Decides(1) =>
          LET l == as_local[1]
          IN  /\ as_pc'[1] = "scale_up" =>
                    /\ HighRps(l)
                    /\ IsSet(l.state.high_rps_since)
                    /\ now - l.state.high_rps_since
                          >= scale_up_threshold_minutes * 60
              /\ ~HighRps(l) => ~IsSet(as_row'.high_rps_since)]_vars


\* the tick of process p performs the scaling action `action`
Performs(p, action) ==
    /\ as_pc[p] = action
    /\ as_pc'[p] = "idle"
    /\ as_actions' # as_actions

\* C28 (as claimed): a tick performs at most one of scale_up and scale_down,
\* and the action leaves the region with one available worker more, or one
\* less, than the count the tick read at its start, and desired_capacity at
\* that number.
C28_OneStepPerTick ==
    [][/\ ~(as_pc[1] = "scale_up" /\ as_pc'[1] = "scale_down")
       /\ ~(as_pc[1] = "scale_down" /\ as_pc'[1] = "scale_up")
       /\ Performs(1, "scale_up") =>
             /\ AvailableCount' = as_local[1].count + 1
             /\ as_row'.desired_capacity = as_local[1].count + 1
       /\ Performs(1, "scale_down") =>
             /\ AvailableCount' = as_local[1].count - 1
             /\ as_row'.desired_capacity = as_local[1].count - 1]_vars

----------------------------------------------------------------------------
(* The victim of scale_down *)

\* routing scores the health monitor and the registration leave on the rows
\* of available workers: bootstrap, degraded, healthy
VictimScores == {10, 50, 98}

\* three available workers with any of these routing scores
InitVictim ==
    /\ now = Epoch
    /\ instances = FleetInstances(AsIds, AsIds, [i \in AsIds |-> LocalRegion], Epoch)
    /\ \E score \in [AsIds -> VictimScores] :
          routing = [i \in AsIds |->
                        [FleetRouting(AsIds, AsIds, [j \in AsIds |-> LocalRegion],
                                      Epoch)[i]
                            EXCEPT !.routing_score = score[i]]]
    /\ hm_stale = {}
    /\ last_op = NoOp
    /\ InitControllers

SpecVictim == InitVictim /\ [][NextFleet]_vars

----------------------------------------------------------------------------
(* Sustained overload *)

\* the region of the scenario: two available workers
SusFleet == {"i-1", "i-2"}

\* get_current_rps under overload: above 1.2 * 12.5 * 2 = 30 on every tick
SusRps == {40, 100}

\* seconds between two invocations of the handler, and the time followed
SusIntervals == {10, 60}
MaxSusTime == 400

InitSustained ==
    /\ now = Epoch
    /\ instances = FleetInstances(AsIds, SusFleet, [i \in AsIds |-> LocalRegion], Epoch)
    /\ routing = FleetRouting(AsIds, SusFleet, [i \in AsIds |-> LocalRegion], Epoch)
    /\ hm_stale = {}
    /\ last_op = NoOp
    /\ InitControllers

\* lambda_handler: one run() per invocation
SusTick(rps) ==
    /\ last_op.actor # "autoscaler"
    /\ AsRead(1, rps)

\* the time to the next invocation passes once run() has returned
SusClock ==
    /\ as_pc[1] = "idle"
    /\ last_op.actor = "autoscaler"
    /\ \E d \in SusIntervals :
          /\ now + d <= Epoch + MaxSusTime
          /\ now' = now + d
    /\ last_op' = NoOp
    /\ UNCHANGED <<rqVars, gaVars, amVars, rmVars, pbVars, hmVars, hbVars, instances, routing, hm_stale, foVars, rtVars, asVars>>

\* the ticks of one autoscaler under overload; scale_down is never decided
\* with two workers
NextSustained ==
    \/ SusClock
    \/ \E rps \in SusRps : SusTick(rps)
    \/ AsDecide(1)
    \/ AsScaleUp(1)

SpecSustained == InitSustained /\ [][NextSustained]_vars /\ WF_vars(NextSustained)

----------------------------------------------------------------------------
(* Ties in the router's selection *)

\* C31 (as claimed): among the candidates that share the highest routing
\* score the router prefers the lower queue_depth, and the worker selected
\* for a request is the same for every order in which the store may return
\* the rows that were read.
C31_DeterministicTieBreak ==
    [][(last_op'.op = "process_request" /\ rt_last'.selected # "none") =>
          /\ \A o \in Orders(rt_last'.read) :
                select_instance(o) = rt_last'.selected
          /\ \A c \in healthy_instances(rt_last'.read) :
                RouterRow(c).routing_score = RouterRow(rt_last'.selected).routing_score
                   => routing[rt_last'.selected].queue_depth
                         <= routing[c].queue_depth]_vars

----------------------------------------------------------------------------
(* The routing row the health monitor writes *)

\* the probe of this router's health monitor that returns 200
RtOkProbe == CHOOSE o \in RtProbeOutcomes : o.kind = "ok"

\* C32 (as claimed): the routing row check_all_instances writes for an
\* available worker whose probe returned 200 carries the composite score of
\* the scoring formula for the probed queue_depth, the round-trip time and
\* healthy (94 for queue_depth 1 and 20 ms), and the probed queue_depth.
C32_MonitorScore ==
    [][last_op'.op = "check_all_instances" =>
          \A i \in get_instances_by_region(instances, LocalRegion, "available") :
             routing'[i].health_status = "healthy" =>
                /\ routing'[i].avg_latency_ms = RtOkProbe.rtt
                /\ routing'[i].routing_score =
                      IntDiv(routing_score_x100(RtOkProbe.queue_depth,
                                                RtOkProbe.rtt, "healthy"), 100)
                /\ routing'[i].queue_depth = RtOkProbe.queue_depth]_vars

----------------------------------------------------------------------------
(* Recovery and hysteresis of the failover handler *)

\* a pass of run_failover_monitor_loop has completed with this step
FailoverTicks == last_op'.op = "tick"

\* C33 (as claimed): a tick that reads a healthy ratio >= recovery_threshold
\* moves the handler towards NORMAL from any state, so that under such ticks
\* it reaches NORMAL and stays there: FAILOVER_ACTIVE goes to RECOVERING, and
\* RECOVERING, DEGRADED and NORMAL go to NORMAL.
C33_ReturnToNormal ==
    [][(FailoverTicks /\ RatioAtLeast(region_health', recovery_threshold)) =>
          failover_state' = IF failover_state = "failover_active"
                            THEN "recovering" ELSE "normal"]_vars


\* the healthy ratio of a non-empty region lies between degraded_threshold
\* and recovery_threshold
InBand(rh) ==
    /\ rh.total_instances > 0
    /\ rh.healthy_instances * 100 >= degraded_threshold * rh.total_instances
    /\ rh.healthy_instances * 100 < recovery_threshold * rh.total_instances

\* C34: a tick that reads a healthy ratio in the band 0.50 <= r < 0.80 of a
\* non-empty region leaves the state of the handler as it was, whatever it
\* was, and records no failover event and no metric.
C34_HysteresisBand ==
    [][(FailoverTicks /\ InBand(region_health')) =>
          /\ failover_state' = failover_state
          /\ failover_events' = failover_events
          /\ fo_metrics' = fo_metrics
          /\ scaling_decisions' = scaling_decisions]_vars

\* a tick has read a ratio in the band while the handler was recovering
C34_Witness ==
    /\ last_op.op = "tick"
    /\ InBand(region_health)
    /\ failover_state = "recovering"

----------------------------------------------------------------------------
(* process_request on the threads of the router's server *)

\* requests the threads handle in all
MaxRqRequests == 3

\* the frame of a step of a request thread
RqFrame ==
    UNCHANGED <<gaVars, amVars, rmVars, pbVars, hmVars, hbVars, now, instances,
                routing, hm_stale, last_op, foVars, asVars, rt_last>>

\* requests that have entered process_request and not returned
RqInFlight == Cardinality({t \in RqThreads : rq_pc[t] # "idle"})

\* self.total_requests += 1, the load
RqLoadTotal(t) ==
    /\ rq_pc[t] = "idle"
    /\ rq_done + RqInFlight < MaxRqRequests
    /\ rq_tmp' = [rq_tmp EXCEPT ![t] = router_stats.total_requests]
    /\ rq_pc' = [rq_pc EXCEPT ![t] = "store_total"]
    /\ UNCHANGED <<router_stats, rt_cache, rq_status, rq_done>>
    /\ RqFrame

\* self.total_requests += 1, the store
RqStoreTotal(t) ==
    /\ rq_pc[t] = "store_total"
    /\ router_stats' = [router_stats EXCEPT !.total_requests = rq_tmp[t] + 1]
    /\ rq_pc' = [rq_pc EXCEPT ![t] = "forward"]
    /\ UNCHANGED <<rt_cache, rq_tmp, rq_status, rq_done>>
    /\ RqFrame

\* select_instance and forward_request: the status code of the request
RqForward(t, order, upstream) ==
    /\ rq_pc[t] = "forward"
    /\ \E selected \in {select_instance(order)} :
          /\ rq_status' = [rq_status EXCEPT ![t] =
                              IF selected = "none" THEN 503
                              ELSE forward_status(upstream)]
          /\ rt_cache' = IF selected # "none" /\ upstream = "conn_error"
                         THEN rt_cache \cup {selected} ELSE rt_cache
    /\ rq_pc' = [rq_pc EXCEPT ![t] = "load_outcome"]
    /\ UNCHANGED <<router_stats, rq_tmp, rq_done>>
    /\ RqFrame

\* self.successful_requests += 1 or self.failed_requests += 1, the load
RqLoadOutcome(t) ==
    /\ rq_pc[t] = "load_outcome"
    /\ rq_tmp' = [rq_tmp EXCEPT ![t] =
                     IF rq_status[t] = 200 THEN router_stats.successful_requests
                     ELSE router_stats.failed_requests]
    /\ rq_pc' = [rq_pc EXCEPT ![t] = "store_outcome"]
    /\ UNCHANGED <<router_stats, rt_cache, rq_status, rq_done>>
    /\ RqFrame

\* the store of that counter; process_request returns
RqStoreOutcome(t) ==
    /\ rq_pc[t] = "store_outcome"
    /\ router_stats' =
          IF rq_status[t] = 200
          THEN [router_stats EXCEPT !.successful_requests = rq_tmp[t] + 1]
          ELSE [router_stats EXCEPT !.failed_requests = rq_tmp[t] + 1]
    /\ rq_pc' = [rq_pc EXCEPT ![t] = "idle"]
    /\ rq_done' = rq_done + 1
    /\ UNCHANGED <<rt_cache, rq_tmp, rq_status>>
    /\ RqFrame

\* any fleet of the region, registered and marked available
InitThreads ==
    /\ now = 0
    /\ \E fleet \in SUBSET InstanceIds :
          /\ instances = FleetInstances(InstanceIds, fleet,
                                        [i \in InstanceIds |-> LocalRegion], 0)
          /\ routing = [i \in InstanceIds |->
                           IF i \in fleet
                           THEN update_routing_health(
                                   FleetRouting(InstanceIds, fleet,
                                       [j \in InstanceIds |-> LocalRegion], 0),
                                   check_instance_health(i, RtOkProbe))[i]
                           ELSE NoRouting]
    /\ hm_stale = {}
    /\ last_op = NoOp
    /\ InitControllers

\* app.run(threaded=True): each request is handled on a thread of its own
NextThreads ==
    \/ \E t \in RqThreads : RqLoadTotal(t)
    \/ \E t \in RqThreads : RqStoreTotal(t)
    \/ \E t \in RqThreads :
          \E order \in Orders(get_instances_by_region_and_model(LocalRegion, "model-a")) :
             \E upstream \in RtUpstream : RqForward(t, order, upstream)
    \/ \E t \in RqThreads : RqLoadOutcome(t)
    \/ \E t \in RqThreads : RqStoreOutcome(t)

SpecThreads == InitThreads /\ [][NextThreads]_vars

\* C35 (as claimed): once every request handled has returned, total_requests
\* is the number of requests handled and equals successful_requests +
\* failed_requests.
C35_RouterCounters ==
    (\A t \in RqThreads : rq_pc[t] = "idle") =>
        /\ router_stats.total_requests = rq_done
        /\ router_stats.total_requests =
              router_stats.successful_requests + router_stats.failed_requests

----------------------------------------------------------------------------
(* Resets of the failure counter *)

\* C36 (as claimed): a probe leaves the worker's failure counter at 0 only
\* when it ends classified healthy or degraded by load; a probe that ends as
\* a failure, an HTTP 200 whose body is not JSON included, leaves the counter
\* strictly greater than it was.
C36_CounterReset ==
    [][\A id \in InstanceIds :
          (Called("check_instance_health", id) /\ probe_last'.instance_id = id)
             => LET o == probe_last'.outcome
                IN  /\ failure_counts'[id] = 0 => o.kind = "ok"
                    /\ o.kind # "ok" =>
                          failure_counts'[id] > probe_last'.before]_vars

----------------------------------------------------------------------------
(* Bounds of desired_capacity *)

\* C37 (as claimed): the desired_capacity stored in the scaling state of the
\* region is between min_instances and max_instances after any sequence of
\* ticks, also when a tick read an instance count of 0.
C37_DesiredCapacityBounds ==
    as_row.present =>
        /\ min_instances <= as_row.desired_capacity
        /\ as_row.desired_capacity <= max_instances

----------------------------------------------------------------------------
(* The autoscaler while CloudWatch cannot be read *)

\* one autoscaler whose reads of the metric may fail, next to the health
\* monitor of the region
NextOutage ==
    \/ AsClock
    \/ \E reading \in AsMetricReads(AsRps) : AsReadMetric(1, reading)
    \/ AsDecide(1)
    \/ AsScaleUp(1)
    \/ AsScaleDown(1)
    \/ DetectStaleInstances
    \/ \E id \in AsIds : MarkInstanceUnhealthy(id)

SpecOutage == InitAutoscaler /\ [][NextOutage]_vars

\* C38 (as claimed): a tick whose read of the metric failed does not start
\* the low-rps timer and does not decide on scale_down.
C38_MetricsOutage ==
    [][(Decides(1) /\ as_metric[1] = "error") =>
          /\ as_pc'[1] # "scale_down"
          /\ ~IsSet(as_row.low_rps_since) => ~IsSet(as_row'.low_rps_since)]_vars

----------------------------------------------------------------------------
(* GlobalAcceleratorManager *)

\* what update_endpoint_group may do: succeed, or raise ClientError
GaOutcomes == {"ok", "ClientError"}

\* set_traffic_dial: the dials after the call and the value returned
set_traffic_dial(dials, region, percentage, outcome) ==
    IF region \notin GaRegions THEN [dials |-> dials, result |-> FALSE]
    ELSE IF percentage < 0 \/ percentage > 100
    THEN [dials |-> dials, result |-> FALSE]
    ELSE IF outcome = "ClientError" THEN [dials |-> dials, result |-> FALSE]
    ELSE [dials |-> [dials EXCEPT ![region] = percentage], result |-> TRUE]

\* GlobalAcceleratorManager.initiate_failover: the failed region's dial to 0,
\* then every target's dial to 100; a target whose dial cannot be set is
\* logged and the loop goes on
initiate_failover_dials(dials, failed_region, target_regions, outcomes) ==
    LET first == set_traffic_dial(dials, failed_region, 0, outcomes[failed_region])
    IN  IF ~first.result THEN [dials |-> dials, result |-> FALSE]
        ELSE [dials |->
                 [r \in GaRegions |->
                     IF r \in target_regions
                     THEN set_traffic_dial(first.dials, r, 100, outcomes[r]).dials[r]
                     ELSE first.dials[r]],
              result |-> TRUE]

GaInitiateFailover(failed_region, target_regions, outcomes) ==
    /\ \E r \in {initiate_failover_dials(ga_dial, failed_region, target_regions, outcomes)} :
          /\ ga_dial' = r.dials
          /\ ga_last' = [op |-> "initiate_failover", region |-> failed_region,
                         targets |-> target_regions, result |-> r.result,
                         before |-> ga_dial]
    /\ UNCHANGED <<rqVars, amVars, rmVars, pbVars, hmVars, hbVars, now, instances,
                   routing, hm_stale, last_op, foVars, rtVars, asVars>>

\* initiate_recovery(region, 50) and complete_recovery(region)
GaRecovery(op, region, percentage, outcome) ==
    /\ \E r \in {set_traffic_dial(ga_dial, region, percentage, outcome)} :
          /\ ga_dial' = r.dials
          /\ ga_last' = [op |-> op, region |-> region, targets |-> {},
                         result |-> r.result, before |-> ga_dial]
    /\ UNCHANGED <<rqVars, amVars, rmVars, pbVars, hmVars, hbVars, now, instances,
                   routing, hm_stale, last_op, foVars, rtVars, asVars>>

NextAccelerator ==
    \/ \E failed \in GaRegions :
          \E targets \in SUBSET (GaRegions \ {failed}) :
             \E outcomes \in [GaRegions -> GaOutcomes] :
                GaInitiateFailover(failed, targets, outcomes)
    \/ \E region \in GaRegions, outcome \in GaOutcomes :
          GaRecovery("initiate_recovery", region, 50, outcome)
    \/ \E region \in GaRegions, outcome \in GaOutcomes :
          GaRecovery("complete_recovery", region, 100, outcome)

SpecAccelerator == Init /\ [][NextAccelerator]_vars

\* C39 (as claimed): when initiate_failover has returned True the failed
\* region's dial is 0 and the dial of every target region is 100; when it
\* has returned False no target region's dial was changed.
C39_FailoverResult ==
    ga_last.op = "initiate_failover" =>
        /\ ga_last.result =>
              /\ ga_dial[ga_last.region] = 0
              /\ \A r \in ga_last.targets : ga_dial[r] = 100
        /\ ~ga_last.result =>
              \A r \in ga_last.targets : ga_dial[r] = ga_last.before[r]

----------------------------------------------------------------------------
(* The draining write of the health monitor *)

\* C40 (as claimed): mark_instance_unhealthy leaves a worker quarantined that
\* Cleanup quarantined after detect_stale_instances had read it; its
\* draining write overwrites no state other than available or draining.
C40_StaleVersusQuarantine ==
    [][\A id \in InstanceIds :
          Called("mark_instance_unhealthy", id) =>
             /\ instances[id].state = "quarantined"
                   => instances'[id].state = "quarantined"
             /\ instances[id].state \notin {"available", "draining"}
                   => instances'[id].state = instances[id].state]_vars

====
